---- MODULE Spec2Model ----
(***************************************************************************)
(* A model of the UTCI package (src/src/utci/utci.py and the example       *)
(* program src/examples/example.py).                                       *)
(*                                                                         *)
(* The package is three pure functions over Python floats (IEEE-754        *)
(* binary64): es, rh_to_vp and utci_approx.  TLC has no floating point, so *)
(* a binary64 value is modelled bit for bit: a finite value is a sign, a   *)
(* 53-bit integer significand and a binary exponent, and +, -, * and / are *)
(* the exact result rounded to nearest, ties to even, with overflow to     *)
(* infinity, gradual underflow and NaN as in IEEE-754.  Significands do    *)
(* not fit TLC's 32-bit integers, so natural numbers are kept as sequences *)
(* of 15-bit limbs.                                                        *)
(***************************************************************************)
EXTENDS Integers, Sequences, FiniteSets, TLC

(***************************************************************************)
(* Natural numbers of any size: little-endian sequences of limbs in        *)
(* 0..Base-1 with no leading zero limb; zero is the empty sequence.        *)
(***************************************************************************)
Max(a, b) == IF a >= b THEN a ELSE b
Min(a, b) == IF a <= b THEN a ELSE b

Base == 2^15

\* a without its leading zero limbs (SubSeq also turns a function TLC keeps
\* unevaluated into a sequence of values)
BNorm(a) ==
    IF Len(a) = 0 THEN <<>>
    ELSE IF a[Len(a)] # 0 THEN SubSeq(a, 1, Len(a))
    ELSE IF \A i \in 1..Len(a) : a[i] = 0 THEN <<>>
    ELSE SubSeq(a, 1, CHOOSE i \in 1..Len(a) :
                          a[i] # 0 /\ \A j \in (i + 1)..Len(a) : a[j] = 0)

RECURSIVE BFromInt(_)
BFromInt(n) == IF n = 0 THEN <<>> ELSE <<n % Base>> \o BFromInt(n \div Base)

BLimb(a, i) == IF i >= 1 /\ i <= Len(a) THEN a[i] ELSE 0

BMaxLen(a, b) == IF Len(a) >= Len(b) THEN Len(a) ELSE Len(b)

\* The carry into limb i of the limb sums s: 1 when a limb below overflows
\* and every limb between the two passes a carry on
BCarry(s, i) ==
    IF \E j \in 1..(i - 1) :
          s[j] >= Base /\ \A k \in (j + 1)..(i - 1) : s[k] = Base - 1
    THEN 1 ELSE 0

\* the n limb sums s with their carries taken on
BCarried(s, n) ==
    BNorm([i \in 1..(n + 1) |->
              IF i <= n THEN (s[i] + BCarry(s, i)) % Base ELSE BCarry(s, i)])

BLimbSums(a, b, n) == SubSeq([i \in 1..n |-> BLimb(a, i) + BLimb(b, i)], 1, n)

\* a + b
BAdd(a, b) == BCarried(BLimbSums(a, b, BMaxLen(a, b)), BMaxLen(a, b))

\* the borrow from limb i of a - b, found as the carries of BAdd are
BBorrow(a, b, i) ==
    IF \E j \in 1..(i - 1) :
          a[j] < BLimb(b, j) /\ \A k \in (j + 1)..(i - 1) : a[k] = BLimb(b, k)
    THEN 1 ELSE 0

\* a - b for a >= b
BSub(a, b) ==
    BNorm([i \in 1..Len(a) |->
              (a[i] - BLimb(b, i) - BBorrow(a, b, i) + Base) % Base])

\* -1, 0, 1 as a < b, a = b, a > b
BCmp(a, b) ==
    IF Len(a) < Len(b) THEN -1
    ELSE IF Len(a) > Len(b) THEN 1
    ELSE IF \A i \in 1..Len(a) : a[i] = b[i] THEN 0
    ELSE LET top == CHOOSE i \in 1..Len(a) :
                        a[i] # b[i] /\ \A j \in (i + 1)..Len(a) : a[j] = b[j]
         IN  IF a[top] < b[top] THEN -1 ELSE 1

\* a * d for one limb d: the low halves of the limb products plus their high
\* halves one limb up
BMulLimb(a, d) ==
    IF d = 0 \/ a = <<>> THEN <<>>
    ELSE BAdd([i \in 1..Len(a) |-> (a[i] * d) % Base],
              [i \in 1..(Len(a) + 1) |-> IF i = 1 THEN 0 ELSE (a[i - 1] * d) \div Base])

\* the sum over i in lo..hi of the low (part = 0) or the high (part = 1) half
\* of the limb product a[i] * b[k - i]
RECURSIVE BColumn(_, _, _, _, _, _)
BColumn(a, b, k, lo, hi, part) ==
    IF lo > hi THEN 0
    ELSE IF lo = hi
         THEN (IF part = 0 THEN (a[lo] * b[k - lo]) % Base
               ELSE (a[lo] * b[k - lo]) \div Base)
    ELSE BColumn(a, b, k, lo, (lo + hi) \div 2, part)
         + BColumn(a, b, k, (lo + hi) \div 2 + 1, hi, part)

\* limb k of a * b before the carries: the low halves of the products
\* a[i] * b[k + 1 - i] and the high halves of the products a[i] * b[k - i]
BColumnSum(a, b, k) ==
    BColumn(a, b, k + 1, Max(1, k + 1 - Len(b)), Min(Len(a), k), 0)
    + BColumn(a, b, k, Max(1, k - Len(b)), Min(Len(a), k - 1), 1)

\* the n column sums d, each below 2 * n * Base, with their carries taken on
BCarryColumns(d, n) ==
    BAdd([k \in 1..n |-> d[k] % Base],
         [k \in 1..(n + 1) |-> IF k = 1 THEN 0 ELSE d[k - 1] \div Base])

BColumns(a, b, n) == SubSeq([k \in 1..n |-> BColumnSum(a, b, k)], 1, n)

\* a * b
BMul(a, b) ==
    IF a = <<>> \/ b = <<>> THEN <<>>
    ELSE BCarryColumns(BColumns(a, b, Len(a) + Len(b)), Len(a) + Len(b))

\* s back to front
BReverse(s) == [i \in 1..Len(s) |-> s[Len(s) + 1 - i]]

\* the quotient limbs of the upper part of a division before those of the
\* lower part, and the remainder the lower part leaves
BDivCat(upper, lower) == [q |-> upper.q \o lower.q, r |-> lower.r]

\* floor(a / d) and a mod d for one limb d > 0: limbs lo..hi of a from the
\* top down, rem the remainder of the limbs above; the quotient limbs are
\* written as they are found, the top one first
RECURSIVE BDivLimbRange(_, _, _, _, _)
RECURSIVE BDivLimbLower(_, _, _, _, _)
BDivLimbLower(a, d, lo, hi, upper) ==
    BDivCat(upper, BDivLimbRange(a, d, lo, hi, upper.r))

BDivLimbRange(a, d, lo, hi, rem) ==
    IF lo = hi
    THEN [q |-> <<(rem * Base + a[lo]) \div d>>, r |-> (rem * Base + a[lo]) % d]
    ELSE BDivLimbLower(a, d, lo, (lo + hi) \div 2,
                       BDivLimbRange(a, d, (lo + hi) \div 2 + 1, hi, rem))

\* a division's quotient limbs, found the top one first, as a number
BDivResult(res) == [q |-> BNorm(BReverse(res.q)), r |-> res.r]

BDivLimb(a, d) ==
    IF a = <<>> THEN [q |-> <<>>, r |-> 0]
    ELSE BDivResult(BDivLimbRange(a, d, 1, Len(a), 0))

\* the number of bits of a limb, and of a (0 for zero)
IntBitLen(n) == CHOOSE k \in 0..15 : n < 2^k /\ (k = 0 \/ n >= 2^(k - 1))

BBitLen(a) == IF a = <<>> THEN 0 ELSE 15 * (Len(a) - 1) + IntBitLen(a[Len(a)])

\* n zero limbs
BZeros(n) == [i \in 1..n |-> 0]

\* a * 2^n
BShl(a, n) ==
    IF a = <<>> THEN <<>>
    ELSE LET w == 2^(n % 15)
         IN  BZeros(n \div 15)
             \o BNorm([i \in 1..(Len(a) + 1) |->
                          ((BLimb(a, i) * w) % Base) + ((BLimb(a, i - 1) * w) \div Base)])

\* floor(a / 2^n)
BShr(a, n) ==
    IF n \div 15 >= Len(a) THEN <<>>
    ELSE LET k == n \div 15
             w == 2^(n % 15)
         IN  BNorm([i \in 1..(Len(a) - k) |->
                       (a[i + k] \div w) + (BLimb(a, i + k + 1) % w) * (Base \div w)])

\* a mod 2^n
BLow(a, n) ==
    LET k == n \div 15
    IN  IF k >= Len(a) THEN a
        ELSE BNorm(SubSeq(a, 1, k) \o <<a[k + 1] % (2^(n % 15))>>)

BIsOdd(a) == a # <<>> /\ a[1] % 2 = 1

BOne == <<1>>

\* q * t <= rem
BFits(t, q, rem) == BCmp(BMulLimb(t, q), rem) <= 0

\* the largest q with q * t <= rem, which is qhat or at most 2 below it
BQuotTry(t, qhat, rem) ==
    IF BFits(t, qhat, rem) THEN qhat
    ELSE IF BFits(t, qhat - 1, rem) THEN qhat - 1
    ELSE qhat - 2

\* One limb of a long division by v, whose top limb has its top bit set:
\* the largest q with q * v * Base^i <= rem, for rem < v * Base^(i + 1).  The
\* two top limbs of rem over the top limb of v are at most 2 above it
BQuotLimb(rem, v, i) ==
    BQuotTry(BZeros(i) \o v,
             Min((BLimb(rem, Len(v) + i + 1) * Base + BLimb(rem, Len(v) + i))
                     \div v[Len(v)],
                 Base - 1),
             rem)

\* quotient limb i, q, and what it leaves of rem
BDivModLimb(rem, v, i, q) ==
    [q |-> <<q>>, r |-> BSub(rem, BMulLimb(BZeros(i) \o v, q))]

\* the quotient limbs lo..hi (counted from 0) of rem by v, from the top down
\* and written the top one first
RECURSIVE BDivModRange(_, _, _, _)
RECURSIVE BDivModLower(_, _, _, _)
BDivModLower(upper, v, lo, hi) ==
    BDivCat(upper, BDivModRange(upper.r, v, lo, hi))

BDivModRange(rem, v, lo, hi) ==
    IF lo = hi THEN BDivModLimb(rem, v, lo, BQuotLimb(rem, v, lo))
    ELSE BDivModLower(BDivModRange(rem, v, (lo + hi) \div 2 + 1, hi),
                      v, lo, (lo + hi) \div 2)

\* the quotient limbs as a number, and the remainder scaled back by 2^sh
BDivModUnscale(res, sh) ==
    [q |-> BNorm(BReverse(res.q)), r |-> BShr(res.r, sh)]

\* the division of u by v, which are a and b times 2^sh
BDivModScaled(u, v, sh) ==
    BDivModUnscale(BDivModRange(u, v, 0, Len(u) - Len(v)), sh)

BDivModShift(a, b, sh) == BDivModScaled(BShl(a, sh), BShl(b, sh), sh)

\* floor(a / b) and a mod b for b > 0: both are scaled to set the top bit of
\* b's top limb, which leaves the quotient as it is and scales the remainder
BDivMod(a, b) ==
    IF BCmp(a, b) < 0 THEN [q |-> <<>>, r |-> a]
    ELSE BDivModShift(a, b, 15 - IntBitLen(b[Len(b)]))

\* sq * a when n is odd, sq when it is even
BPowOdd(sq, a, n) == IF n % 2 = 0 THEN sq ELSE BMul(sq, a)

\* a^n from h = a^(n \div 2)
BPowStep(h, a, n) == BPowOdd(BMul(h, h), a, n)

\* a^n, by squaring
RECURSIVE BPow(_, _)
BPow(a, n) == IF n = 0 THEN BOne ELSE BPowStep(BPow(a, n \div 2), a, n)

(***************************************************************************)
(* IEEE-754 binary64.  A value is a record: k is "fin", "inf" or "nan"; a  *)
(* finite value is (-1)^s * m * 2^e in canonical form: m = 0 and           *)
(* e = EMin (zero), or m < 2^52 and e = EMin (subnormal), or               *)
(* 2^52 <= m < 2^53 and EMin <= e <= EMax (normal).  t is the Python type  *)
(* of the scalar: "float" (the built-in) or "float64" (numpy.float64); an  *)
(* operation with a numpy operand yields a numpy scalar.                   *)
(***************************************************************************)
EMin == 0 - 1074
EMax == 1023 - 52
Precision == 52 + 1

Fin(t, s, m, e) == [k |-> "fin", t |-> t, s |-> s, m |-> m, e |-> e]
Inf(t, s) == [k |-> "inf", t |-> t, s |-> s, m |-> <<>>, e |-> 0]
NaN(t) == [k |-> "nan", t |-> t, s |-> 0, m |-> <<>>, e |-> 0]
Zero(t, s) == Fin(t, s, <<>>, EMin)

\* the type of the result of a binary operation
Join(x, y) == IF x.t = "float64" \/ y.t = "float64" THEN "float64" ELSE "float"

Xor(a, b) == IF a = b THEN 0 ELSE 1

\* (-1)^s * m1 * 2^e1 for m1 of Precision bits, or of one more after a carry
RoundPack(t, s, m1, e1, carry) ==
    IF (IF carry THEN e1 + 1 ELSE e1) > EMax THEN Inf(t, s)
    ELSE IF carry THEN Fin(t, s, BShr(m1, 1), e1 + 1)
    ELSE Fin(t, s, m1, e1)

RoundCarry(t, s, m1, e1) == RoundPack(t, s, m1, e1, BBitLen(m1) > Precision)

\* whether q, which left the bits low (and a little more when sticky) out,
\* is rounded up; c is the order of low and half a unit of q
RoundUp(mode, s, sticky, q, low, c) ==
    CASE mode = "nearest" -> c > 0 \/ (c = 0 /\ (sticky \/ BIsOdd(q)))
      [] mode = "floor" -> s = 1 /\ (sticky \/ low # <<>>)
      [] mode = "ceil" -> s = 0 /\ (sticky \/ low # <<>>)

RoundAdd(t, s, q, e1, up) ==
    RoundCarry(t, s, IF up THEN BAdd(q, BOne) ELSE q, e1)

\* M = q * 2^sh + low, len the number of bits of M
RoundCut(mode, t, s, sticky, q, low, len, sh, e1) ==
    RoundAdd(t, s, q, e1,
             RoundUp(mode, s, sticky, q, low,
                     IF len < sh THEN 0 - 1 ELSE BCmp(low, BShl(BOne, sh - 1))))

RoundShift(mode, t, s, M, sticky, len, sh, e1) ==
    IF sh <= 0 THEN RoundCarry(t, s, BShl(M, 0 - sh), e1)
    ELSE RoundCut(mode, t, s, sticky, BShr(M, sh), BLow(M, sh), len, sh, e1)

\* the exponent e1 of the result leaves Precision bits of M, or fewer for a
\* subnormal
RoundPlace(mode, t, s, M, E, sticky, len) ==
    RoundShift(mode, t, s, M, sticky, len,
               Max(E + len - Precision, EMin) - E, Max(E + len - Precision, EMin))

\* (-1)^s * M * 2^E (and a little more, below one unit of M, when sticky)
\* rounded to a binary64: to the nearest, ties to even ("nearest"), to the
\* neighbour below ("floor") or to the neighbour above ("ceil")
RoundTo(mode, t, s, M, E, sticky) ==
    IF M = <<>> THEN Zero(t, s)
    ELSE RoundPlace(mode, t, s, M, E, sticky, BBitLen(M))

\* the rounding of the arithmetic operations
Round(t, s, M, E, sticky) == RoundTo("nearest", t, s, M, E, sticky)

IsZero(x) == x.k = "fin" /\ x.m = <<>>
IsFinite(x) == x.k = "fin"
IsNaN(x) == x.k = "nan"

\* -1, 0, 1: the order of the magnitudes of two finite values
MagCmp(x, y) ==
    IF x.e < y.e THEN -1 ELSE IF x.e > y.e THEN 1 ELSE BCmp(x.m, y.m)

\* x < y, x <= y and x == y as Python compares floats (false with a NaN)
FLt(x, y) ==
    /\ x.k # "nan" /\ y.k # "nan"
    /\ IF x.k = "fin" /\ x.m = <<>> /\ y.k = "fin" /\ y.m = <<>> THEN FALSE
       ELSE IF x.s # y.s THEN x.s = 1
       ELSE IF x.k = "inf" THEN (y.k # "inf" /\ x.s = 1)
       ELSE IF y.k = "inf" THEN y.s = 0
       ELSE MagCmp(x, y) = (IF x.s = 0 THEN 0 - 1 ELSE 1)

FEq(x, y) ==
    /\ x.k # "nan" /\ y.k # "nan"
    /\ \/ x.k = "fin" /\ x.m = <<>> /\ y.k = "fin" /\ y.m = <<>>
       \/ x.k = y.k /\ x.s = y.s /\ x.m = y.m /\ x.e = y.e

FLe(x, y) == FLt(x, y) \/ FEq(x, y)

FNeg(x) == IF x.k = "nan" THEN x ELSE [x EXCEPT !.s = 1 - x.s]

FAbs(x) == [x EXCEPT !.s = 0]

\* the sum of the finite nonzero x and y whose magnitudes are X and Y in
\* units of 2^e; c is the order of X and Y
FAddSigned(t, x, y, X, Y, e, c) ==
    IF x.s # y.s /\ c = 0 THEN Zero(t, 0)
    ELSE Round(t, IF x.s = y.s \/ c > 0 THEN x.s ELSE y.s,
               IF x.s = y.s THEN BAdd(X, Y)
               ELSE IF c > 0 THEN BSub(X, Y) ELSE BSub(Y, X),
               e, FALSE)

FAddAligned(t, x, y, X, Y, e) == FAddSigned(t, x, y, X, Y, e, BCmp(X, Y))

FAddAlign(t, x, y, e) ==
    FAddAligned(t, x, y, BShl(x.m, x.e - e), BShl(y.m, y.e - e), e)

FAddAs(t, x, y) ==
    IF x.k = "nan" \/ y.k = "nan" THEN NaN(t)
    ELSE IF x.k = "inf" /\ y.k = "inf"
         THEN (IF x.s = y.s THEN Inf(t, x.s) ELSE NaN(t))
    ELSE IF x.k = "inf" THEN Inf(t, x.s)
    ELSE IF y.k = "inf" THEN Inf(t, y.s)
    ELSE IF x.m = <<>> /\ y.m = <<>>
         THEN Zero(t, IF x.s = y.s THEN x.s ELSE 0)
    ELSE IF y.m = <<>> THEN [x EXCEPT !.t = t]
    ELSE IF x.m = <<>> THEN [y EXCEPT !.t = t]
    \* the smaller operand is below a quarter of the last place of the larger
    ELSE IF x.e - y.e > Precision + 3 THEN [x EXCEPT !.t = t]
    ELSE IF y.e - x.e > Precision + 3 THEN [y EXCEPT !.t = t]
    ELSE FAddAlign(t, x, y, Min(x.e, y.e))

\* x + y
FAdd(x, y) == FAddAs(Join(x, y), x, y)

\* x - y
FSub(x, y) == FAdd(x, FNeg(y))

FMulAs(t, s, x, y) ==
    IF x.k = "nan" \/ y.k = "nan" THEN NaN(t)
    ELSE IF x.k = "inf" \/ y.k = "inf"
         THEN (IF (x.k = "fin" /\ x.m = <<>>) \/ (y.k = "fin" /\ y.m = <<>>)
               THEN NaN(t) ELSE Inf(t, s))
    ELSE Round(t, s, BMul(x.m, y.m), x.e + y.e, FALSE)

\* x * y
FMul(x, y) == FMulAs(Join(x, y), Xor(x.s, y.s), x, y)

\* the quotient d.q of x.m * 2^k by y.m, with a nonzero remainder kept as
\* the sticky bit
FDivRound(t, s, x, y, k, d) == Round(t, s, d.q, x.e - k - y.e, d.r # <<>>)

FDivBits(t, s, x, y, k) ==
    FDivRound(t, s, x, y, k, BDivMod(BShl(x.m, k), y.m))

FDivAs(t, s, x, y) ==
    IF x.k = "nan" THEN NaN(t)
    ELSE IF x.k = "inf" THEN Inf(t, s)
    ELSE IF x.m = <<>> THEN Zero(t, s)
    ELSE FDivBits(t, s, x, y, BBitLen(y.m) + 60 - BBitLen(x.m))

\* x / y for a finite y # 0: the quotient is computed to 60 bits or more
FDiv(x, y) == FDivAs(Join(x, y), Xor(x.s, y.s), x, y)

(***************************************************************************)
(* A decimal literal of the source, d1.d2d3...dn e exp10, read as Python   *)
(* reads it: the nearest binary64 to the decimal value.                    *)
(***************************************************************************)
\* the number written by the digits lo..hi
RECURSIVE DecDigits(_, _, _)
DecDigits(digits, lo, hi) ==
    IF lo = hi THEN BFromInt(digits[lo])
    ELSE BAdd(BMul(DecDigits(digits, lo, (lo + hi) \div 2),
                   BPow(<<10>>, hi - (lo + hi) \div 2)),
              DecDigits(digits, (lo + hi) \div 2 + 1, hi))

\* mant / den from its quotient by 2^-k
SciRound(s, k, d) == Round("float", s, d.q, 0 - k, d.r # <<>>)

SciQuot(s, mant, den, k) == SciRound(s, k, BDivMod(BShl(mant, k), den))

\* mant * 10^e10 as the product or the quotient of two whole numbers
SciScale(s, mant, e10, pow) ==
    IF e10 >= 0 THEN Round("float", s, BMul(mant, pow), 0, FALSE)
    ELSE SciQuot(s, mant, pow, BBitLen(pow) + 64)

SciPow(s, mant, e10) ==
    SciScale(s, mant, e10, BPow(<<10>>, IF e10 >= 0 THEN e10 ELSE 0 - e10))

Sci(s, digits, exp10) ==
    SciPow(s, DecDigits(digits, 1, Len(digits)), exp10 - (Len(digits) - 1))

\* a float as a numpy.float64 scalar (an element of a numpy array)
AsNp(x) == [x EXCEPT !.t = "float64"]

(***************************************************************************)
(* utci_approx: the 210 terms of utci.py lines 90-299, in source order,    *)
(* each the literal coefficient (its sign, its digits d1.d2d3... and its   *)
(* power of ten) and its factors in the order the source multiplies them.  *)
(***************************************************************************)
Terms == <<
    [c |-> <<0, <<6,0,7,5,6,2,0,5,2>>, -1>>, f |-> <<>>],
    [c |-> <<1, <<2,2,7,7,1,2,3,4,3>>, -2>>, f |-> <<"ta">>],
    [c |-> <<0, <<8,0,6,4,7,0,2,4,9>>, -4>>, f |-> <<"ta", "ta">>],
    [c |-> <<1, <<1,5,4,2,7,1,3,7,2>>, -4>>, f |-> <<"ta", "ta", "ta">>],
    [c |-> <<1, <<3,2,4,6,5,1,7,3,5>>, -6>>, f |-> <<"ta", "ta", "ta", "ta">>],
    [c |-> <<0, <<7,3,2,6,0,2,8,5,2>>, -8>>, f |-> <<"ta", "ta", "ta", "ta", "ta">>],
    [c |-> <<0, <<1,3,5,9,5,9,0,7,3>>, -9>>, f |-> <<"ta", "ta", "ta", "ta", "ta", "ta">>],
    [c |-> <<1, <<2,2,5,8,3,6,5,2,0>>, 0>>, f |-> <<"va">>],
    [c |-> <<0, <<8,8,0,3,2,6,0,3,5>>, -2>>, f |-> <<"ta", "va">>],
    [c |-> <<0, <<2,1,6,8,4,4,4,5,4>>, -3>>, f |-> <<"ta", "ta", "va">>],
    [c |-> <<1, <<1,5,3,3,4,7,0,8,7>>, -5>>, f |-> <<"ta", "ta", "ta", "va">>],
    [c |-> <<1, <<5,7,2,9,8,3,7,0,4>>, -7>>, f |-> <<"ta", "ta", "ta", "ta", "va">>],
    [c |-> <<1, <<2,5,5,0,9,0,1,4,5>>, -9>>, f |-> <<"ta", "ta", "ta", "ta", "ta", "va">>],
    [c |-> <<1, <<7,5,1,2,6,9,5,0,5>>, -1>>, f |-> <<"va", "va">>],
    [c |-> <<1, <<4,0,8,3,5,0,2,7,1>>, -3>>, f |-> <<"ta", "va", "va">>],
    [c |-> <<1, <<5,2,1,6,7,0,6,7,5>>, -5>>, f |-> <<"ta", "ta", "va", "va">>],
    [c |-> <<0, <<1,9,4,5,4,4,6,6,7>>, -6>>, f |-> <<"ta", "ta", "ta", "va", "va">>],
    [c |-> <<0, <<1,1,4,0,9,9,5,3,1>>, -8>>, f |-> <<"ta", "ta", "ta", "ta", "va", "va">>],
    [c |-> <<0, <<1,5,8,1,3,7,2,5,6>>, -1>>, f |-> <<"va", "va", "va">>],
    [c |-> <<1, <<6,5,7,2,6,3,1,4,3>>, -5>>, f |-> <<"ta", "va", "va", "va">>],
    [c |-> <<0, <<2,2,2,6,9,7,5,2,4>>, -7>>, f |-> <<"ta", "ta", "va", "va", "va">>],
    [c |-> <<1, <<4,1,6,1,1,7,0,3,1>>, -8>>, f |-> <<"ta", "ta", "ta", "va", "va", "va">>],
    [c |-> <<1, <<1,2,7,7,6,2,7,5,3>>, -2>>, f |-> <<"va", "va", "va", "va">>],
    [c |-> <<0, <<9,6,6,8,9,1,8,7,5>>, -6>>, f |-> <<"ta", "va", "va", "va", "va">>],
    [c |-> <<0, <<2,5,2,7,8,5,8,5,2>>, -9>>, f |-> <<"ta", "ta", "va", "va", "va", "va">>],
    [c |-> <<0, <<4,5,6,3,0,6,6,7,2>>, -4>>, f |-> <<"va", "va", "va", "va", "va">>],
    [c |-> <<1, <<1,7,4,2,0,2,5,4,6>>, -7>>, f |-> <<"ta", "va", "va", "va", "va", "va">>],
    [c |-> <<1, <<5,9,1,4,9,1,2,6,9>>, -6>>, f |-> <<"va", "va", "va", "va", "va", "va">>],
    [c |-> <<0, <<3,9,8,3,7,4,0,2,9>>, -1>>, f |-> <<"d_tmrt">>],
    [c |-> <<0, <<1,8,3,9,4,5,3,1,4>>, -4>>, f |-> <<"ta", "d_tmrt">>],
    [c |-> <<1, <<1,7,3,7,5,4,5,1,0>>, -4>>, f |-> <<"ta", "ta", "d_tmrt">>],
    [c |-> <<1, <<7,6,0,7,8,1,1,5,9>>, -7>>, f |-> <<"ta", "ta", "ta", "d_tmrt">>],
    [c |-> <<0, <<3,7,7,8,3,0,2,8,7>>, -8>>, f |-> <<"ta", "ta", "ta", "ta", "d_tmrt">>],
    [c |-> <<0, <<5,4,3,0,7,9,6,7,3>>, -10>>, f |-> <<"ta", "ta", "ta", "ta", "ta", "d_tmrt">>],
    [c |-> <<1, <<2,0,0,5,1,8,2,6,9>>, -2>>, f |-> <<"va", "d_tmrt">>],
    [c |-> <<0, <<8,9,2,8,5,9,8,3,7>>, -4>>, f |-> <<"ta", "va", "d_tmrt">>],
    [c |-> <<0, <<3,4,5,4,3,3,0,4,8>>, -6>>, f |-> <<"ta", "ta", "va", "d_tmrt">>],
    [c |-> <<1, <<3,7,7,9,2,5,7,7,4>>, -7>>, f |-> <<"ta", "ta", "ta", "va", "d_tmrt">>],
    [c |-> <<1, <<1,6,9,6,9,9,3,7,7>>, -9>>, f |-> <<"ta", "ta", "ta", "ta", "va", "d_tmrt">>],
    [c |-> <<0, <<1,6,9,9,9,2,4,1,5>>, -4>>, f |-> <<"va", "va", "d_tmrt">>],
    [c |-> <<1, <<4,9,9,2,0,4,3,1,4>>, -5>>, f |-> <<"ta", "va", "va", "d_tmrt">>],
    [c |-> <<0, <<2,4,7,4,1,7,1,7,8>>, -7>>, f |-> <<"ta", "ta", "va", "va", "d_tmrt">>],
    [c |-> <<0, <<1,0,7,5,9,6,4,6,6>>, -8>>, f |-> <<"ta", "ta", "ta", "va", "va", "d_tmrt">>],
    [c |-> <<0, <<8,4,9,2,4,2,9,3,2>>, -5>>, f |-> <<"va", "va", "va", "d_tmrt">>],
    [c |-> <<0, <<1,3,5,1,9,1,3,2,8>>, -6>>, f |-> <<"ta", "va", "va", "va", "d_tmrt">>],
    [c |-> <<1, <<6,2,1,5,3,1,2,5,4>>, -9>>, f |-> <<"ta", "ta", "va", "va", "va", "d_tmrt">>],
    [c |-> <<1, <<4,9,9,4,1,0,3,0,1>>, -6>>, f |-> <<"va", "va", "va", "va", "d_tmrt">>],
    [c |-> <<1, <<1,8,9,4,8,9,2,5,8>>, -8>>, f |-> <<"ta", "va", "va", "va", "va", "d_tmrt">>],
    [c |-> <<0, <<8,1,5,3,0,0,1,1,4>>, -8>>, f |-> <<"va", "va", "va", "va", "va", "d_tmrt">>],
    [c |-> <<0, <<7,5,5,0,4,3,0,9,0>>, -4>>, f |-> <<"d_tmrt", "d_tmrt">>],
    [c |-> <<1, <<5,6,5,0,9,5,2,1,5>>, -5>>, f |-> <<"ta", "d_tmrt", "d_tmrt">>],
    [c |-> <<1, <<4,5,2,1,6,6,5,6,4>>, -7>>, f |-> <<"ta", "ta", "d_tmrt", "d_tmrt">>],
    [c |-> <<0, <<2,4,6,6,8,8,8,7,8>>, -8>>, f |-> <<"ta", "ta", "ta", "d_tmrt", "d_tmrt">>],
    [c |-> <<0, <<2,4,2,6,7,4,3,4,8>>, -10>>, f |-> <<"ta", "ta", "ta", "ta", "d_tmrt", "d_tmrt">>],
    [c |-> <<0, <<1,5,4,5,4,7,2,5,0>>, -4>>, f |-> <<"va", "d_tmrt", "d_tmrt">>],
    [c |-> <<0, <<5,2,4,1,1,0,9,7,0>>, -6>>, f |-> <<"ta", "va", "d_tmrt", "d_tmrt">>],
    [c |-> <<1, <<8,7,5,8,7,4,9,8,2>>, -8>>, f |-> <<"ta", "ta", "va", "d_tmrt", "d_tmrt">>],
    [c |-> <<1, <<1,5,0,7,4,3,0,6,4>>, -9>>, f |-> <<"ta", "ta", "ta", "va", "d_tmrt", "d_tmrt">>],
    [c |-> <<1, <<1,5,6,2,3,6,3,0,7>>, -5>>, f |-> <<"va", "va", "d_tmrt", "d_tmrt">>],
    [c |-> <<1, <<1,3,3,8,9,5,6,1,4>>, -7>>, f |-> <<"ta", "va", "va", "d_tmrt", "d_tmrt">>],
    [c |-> <<0, <<2,4,9,7,0,9,8,2,4>>, -9>>, f |-> <<"ta", "ta", "va", "va", "d_tmrt", "d_tmrt">>],
    [c |-> <<0, <<6,5,1,7,1,1,7,2,1>>, -7>>, f |-> <<"va", "va", "va", "d_tmrt", "d_tmrt">>],
    [c |-> <<0, <<1,9,4,9,6,0,0,5,3>>, -9>>, f |-> <<"ta", "va", "va", "va", "d_tmrt", "d_tmrt">>],
    [c |-> <<1, <<1,0,0,3,6,1,1,1,3>>, -8>>, f |-> <<"va", "va", "va", "va", "d_tmrt", "d_tmrt">>],
    [c |-> <<1, <<1,2,1,2,0,6,6,7,3>>, -5>>, f |-> <<"d_tmrt", "d_tmrt", "d_tmrt">>],
    [c |-> <<1, <<2,1,8,2,0,3,6,6,0>>, -7>>, f |-> <<"ta", "d_tmrt", "d_tmrt", "d_tmrt">>],
    [c |-> <<0, <<7,5,1,2,6,9,4,8,2>>, -9>>, f |-> <<"ta", "ta", "d_tmrt", "d_tmrt", "d_tmrt">>],
    [c |-> <<0, <<9,7,9,0,6,3,8,4,8>>, -11>>, f |-> <<"ta", "ta", "ta", "d_tmrt", "d_tmrt", "d_tmrt">>],
    [c |-> <<0, <<1,2,5,0,0,6,7,3,4>>, -6>>, f |-> <<"va", "d_tmrt", "d_tmrt", "d_tmrt">>],
    [c |-> <<1, <<1,8,1,5,8,4,7,3,6>>, -9>>, f |-> <<"ta", "va", "d_tmrt", "d_tmrt", "d_tmrt">>],
    [c |-> <<1, <<3,5,2,1,9,7,6,7,1>>, -10>>, f |-> <<"ta", "ta", "va", "d_tmrt", "d_tmrt", "d_tmrt">>],
    [c |-> <<1, <<3,3,6,5,1,4,6,3,0>>, -8>>, f |-> <<"va", "va", "d_tmrt", "d_tmrt", "d_tmrt">>],
    [c |-> <<0, <<1,3,5,9,0,8,3,5,9>>, -10>>, f |-> <<"ta", "va", "va", "d_tmrt", "d_tmrt", "d_tmrt">>],
    [c |-> <<0, <<4,1,7,0,3,2,6,2,0>>, -10>>, f |-> <<"va", "va", "va", "d_tmrt", "d_tmrt", "d_tmrt">>],
    [c |-> <<1, <<1,3,0,3,6,9,0,2,5>>, -9>>, f |-> <<"d_tmrt", "d_tmrt", "d_tmrt", "d_tmrt">>],
    [c |-> <<0, <<4,1,3,9,0,8,4,6,1>>, -10>>, f |-> <<"ta", "d_tmrt", "d_tmrt", "d_tmrt", "d_tmrt">>],
    [c |-> <<0, <<9,2,2,6,5,2,2,5,4>>, -12>>, f |-> <<"ta", "ta", "d_tmrt", "d_tmrt", "d_tmrt", "d_tmrt">>],
    [c |-> <<1, <<5,0,8,2,2,0,3,8,4>>, -9>>, f |-> <<"va", "d_tmrt", "d_tmrt", "d_tmrt", "d_tmrt">>],
    [c |-> <<1, <<2,2,4,7,3,0,9,6,1>>, -11>>, f |-> <<"ta", "va", "d_tmrt", "d_tmrt", "d_tmrt", "d_tmrt">>],
    [c |-> <<0, <<1,1,7,1,3,9,1,3,3>>, -10>>, f |-> <<"va", "va", "d_tmrt", "d_tmrt", "d_tmrt", "d_tmrt">>],
    [c |-> <<0, <<6,6,2,1,5,4,8,7,9>>, -10>>, f |-> <<"d_tmrt", "d_tmrt", "d_tmrt", "d_tmrt", "d_tmrt">>],
    [c |-> <<0, <<4,0,3,8,6,3,2,6,0>>, -13>>, f |-> <<"ta", "d_tmrt", "d_tmrt", "d_tmrt", "d_tmrt", "d_tmrt">>],
    [c |-> <<0, <<1,9,5,0,8,7,2,0,3>>, -12>>, f |-> <<"va", "d_tmrt", "d_tmrt", "d_tmrt", "d_tmrt", "d_tmrt">>],
    [c |-> <<1, <<4,7,3,6,0,2,4,6,9>>, -12>>, f |-> <<"d_tmrt", "d_tmrt", "d_tmrt", "d_tmrt", "d_tmrt", "d_tmrt">>],
    [c |-> <<0, <<5,1,2,7,3,3,4,9,7>>, 0>>, f |-> <<"pa">>],
    [c |-> <<1, <<3,1,2,7,8,8,5,6,1>>, -1>>, f |-> <<"ta", "pa">>],
    [c |-> <<1, <<1,9,6,7,0,1,8,6,1>>, -2>>, f |-> <<"ta", "ta", "pa">>],
    [c |-> <<0, <<9,9,9,6,9,0,8,7,0>>, -4>>, f |-> <<"ta", "ta", "ta", "pa">>],
    [c |-> <<0, <<9,5,1,7,3,8,5,1,2>>, -6>>, f |-> <<"ta", "ta", "ta", "ta", "pa">>],
    [c |-> <<1, <<4,6,6,4,2,6,3,4,1>>, -7>>, f |-> <<"ta", "ta", "ta", "ta", "ta", "pa">>],
    [c |-> <<0, <<5,4,8,0,5,0,6,1,2>>, -1>>, f |-> <<"va", "pa">>],
    [c |-> <<1, <<3,3,0,5,5,2,8,2,3>>, -3>>, f |-> <<"ta", "va", "pa">>],
    [c |-> <<1, <<1,6,4,1,1,9,4,4,0>>, -3>>, f |-> <<"ta", "ta", "va", "pa">>],
    [c |-> <<1, <<5,1,6,6,7,0,6,9,4>>, -6>>, f |-> <<"ta", "ta", "ta", "va", "pa">>],
    [c |-> <<0, <<9,5,2,6,9,2,4,3,2>>, -7>>, f |-> <<"ta", "ta", "ta", "ta", "va", "pa">>],
    [c |-> <<1, <<4,2,9,2,2,3,6,2,2>>, -2>>, f |-> <<"va", "va", "pa">>],
    [c |-> <<0, <<5,0,0,8,4,5,6,6,7>>, -3>>, f |-> <<"ta", "va", "va", "pa">>],
    [c |-> <<0, <<1,0,0,6,0,1,2,5,7>>, -6>>, f |-> <<"ta", "ta", "va", "va", "pa">>],
    [c |-> <<1, <<1,8,1,7,4,8,6,4,4>>, -6>>, f |-> <<"ta", "ta", "ta", "va", "va", "pa">>],
    [c |-> <<1, <<1,2,5,8,1,3,5,0,2>>, -3>>, f |-> <<"va", "va", "va", "pa">>],
    [c |-> <<1, <<1,7,9,3,3,0,3,9,1>>, -4>>, f |-> <<"ta", "va", "va", "va", "pa">>],
    [c |-> <<0, <<2,3,4,9,9,4,4,4,1>>, -6>>, f |-> <<"ta", "ta", "va", "va", "va", "pa">>],
    [c |-> <<0, <<1,2,9,7,3,5,8,0,8>>, -4>>, f |-> <<"va", "va", "va", "va", "pa">>],
    [c |-> <<0, <<1,2,9,0,6,4,8,7,0>>, -6>>, f |-> <<"ta", "va", "va", "va", "va", "pa">>],
    [c |-> <<1, <<2,2,8,5,5,8,6,8,6>>, -6>>, f |-> <<"va", "va", "va", "va", "va", "pa">>],
    [c |-> <<1, <<3,6,9,4,7,6,3,4,8>>, -2>>, f |-> <<"d_tmrt", "pa">>],
    [c |-> <<0, <<1,6,2,3,2,5,3,2,2>>, -3>>, f |-> <<"ta", "d_tmrt", "pa">>],
    [c |-> <<1, <<3,1,4,2,7,9,6,8,0>>, -5>>, f |-> <<"ta", "ta", "d_tmrt", "pa">>],
    [c |-> <<0, <<2,5,9,8,3,5,5,5,9>>, -6>>, f |-> <<"ta", "ta", "ta", "d_tmrt", "pa">>],
    [c |-> <<1, <<4,7,7,1,3,6,5,2,3>>, -8>>, f |-> <<"ta", "ta", "ta", "ta", "d_tmrt", "pa">>],
    [c |-> <<0, <<8,6,4,2,0,3,3,9,0>>, -3>>, f |-> <<"va", "d_tmrt", "pa">>],
    [c |-> <<1, <<6,8,7,4,0,5,1,8,1>>, -4>>, f |-> <<"ta", "va", "d_tmrt", "pa">>],
    [c |-> <<1, <<9,1,3,8,6,3,8,7,2>>, -6>>, f |-> <<"ta", "ta", "va", "d_tmrt", "pa">>],
    [c |-> <<0, <<5,1,5,9,1,6,8,0,6>>, -7>>, f |-> <<"ta", "ta", "ta", "va", "d_tmrt", "pa">>],
    [c |-> <<1, <<3,5,9,2,1,7,4,7,6>>, -5>>, f |-> <<"va", "va", "d_tmrt", "pa">>],
    [c |-> <<0, <<3,2,8,6,9,6,5,1,1>>, -5>>, f |-> <<"ta", "va", "va", "d_tmrt", "pa">>],
    [c |-> <<1, <<7,1,0,5,4,2,4,5,4>>, -7>>, f |-> <<"ta", "ta", "va", "va", "d_tmrt", "pa">>],
    [c |-> <<1, <<1,2,4,3,8,2,3,0,0>>, -5>>, f |-> <<"va", "va", "va", "d_tmrt", "pa">>],
    [c |-> <<1, <<7,3,8,5,8,4,4,0,0>>, -9>>, f |-> <<"ta", "va", "va", "va", "d_tmrt", "pa">>],
    [c |-> <<0, <<2,2,0,6,0,9,2,9,6>>, -7>>, f |-> <<"va", "va", "va", "va", "d_tmrt", "pa">>],
    [c |-> <<1, <<7,3,2,4,6,9,1,8,0>>, -4>>, f |-> <<"d_tmrt", "d_tmrt", "pa">>],
    [c |-> <<1, <<1,8,7,3,8,1,9,6,4>>, -5>>, f |-> <<"ta", "d_tmrt", "d_tmrt", "pa">>],
    [c |-> <<0, <<4,8,0,9,2,5,2,3,9>>, -6>>, f |-> <<"ta", "ta", "d_tmrt", "d_tmrt", "pa">>],
    [c |-> <<1, <<8,7,5,4,9,2,0,4,0>>, -8>>, f |-> <<"ta", "ta", "ta", "d_tmrt", "d_tmrt", "pa">>],
    [c |-> <<0, <<2,7,7,8,6,2,9,3,0>>, -5>>, f |-> <<"va", "d_tmrt", "d_tmrt", "pa">>],
    [c |-> <<1, <<5,0,6,0,0,4,5,9,2>>, -6>>, f |-> <<"ta", "va", "d_tmrt", "d_tmrt", "pa">>],
    [c |-> <<0, <<1,1,4,3,2,5,3,6,7>>, -7>>, f |-> <<"ta", "ta", "va", "d_tmrt", "d_tmrt", "pa">>],
    [c |-> <<0, <<2,5,3,0,1,6,7,2,3>>, -6>>, f |-> <<"va", "va", "d_tmrt", "d_tmrt", "pa">>],
    [c |-> <<1, <<1,7,2,8,5,7,0,3,5>>, -8>>, f |-> <<"ta", "va", "va", "d_tmrt", "d_tmrt", "pa">>],
    [c |-> <<1, <<3,9,5,0,7,9,3,9,8>>, -8>>, f |-> <<"va", "va", "va", "d_tmrt", "d_tmrt", "pa">>],
    [c |-> <<1, <<3,5,9,4,1,3,1,7,3>>, -7>>, f |-> <<"d_tmrt", "d_tmrt", "d_tmrt", "pa">>],
    [c |-> <<0, <<7,0,4,3,8,8,0,4,6>>, -7>>, f |-> <<"ta", "d_tmrt", "d_tmrt", "d_tmrt", "pa">>],
    [c |-> <<1, <<1,8,9,3,0,9,1,6,7>>, -8>>, f |-> <<"ta", "ta", "d_tmrt", "d_tmrt", "d_tmrt", "pa">>],
    [c |-> <<1, <<4,7,9,7,6,8,7,3,1>>, -7>>, f |-> <<"va", "d_tmrt", "d_tmrt", "d_tmrt", "pa">>],
    [c |-> <<0, <<7,9,6,0,7,9,9,7,8>>, -9>>, f |-> <<"ta", "va", "d_tmrt", "d_tmrt", "d_tmrt", "pa">>],
    [c |-> <<0, <<1,6,2,8,9,7,0,5,8>>, -9>>, f |-> <<"va", "va", "d_tmrt", "d_tmrt", "d_tmrt", "pa">>],
    [c |-> <<0, <<3,9,4,3,6,7,6,7,4>>, -8>>, f |-> <<"d_tmrt", "d_tmrt", "d_tmrt", "d_tmrt", "pa">>],
    [c |-> <<1, <<1,1,8,5,6,6,2,4,7>>, -9>>, f |-> <<"ta", "d_tmrt", "d_tmrt", "d_tmrt", "d_tmrt", "pa">>],
    [c |-> <<0, <<3,3,4,6,7,8,0,4,1>>, -10>>, f |-> <<"va", "d_tmrt", "d_tmrt", "d_tmrt", "d_tmrt", "pa">>],
    [c |-> <<1, <<1,1,5,6,0,6,4,4,7>>, -10>>, f |-> <<"d_tmrt", "d_tmrt", "d_tmrt", "d_tmrt", "d_tmrt", "pa">>],
    [c |-> <<1, <<2,8,0,6,2,6,4,0,6>>, 0>>, f |-> <<"pa", "pa">>],
    [c |-> <<0, <<5,4,8,7,1,2,4,8,4>>, -1>>, f |-> <<"ta", "pa", "pa">>],
    [c |-> <<1, <<3,9,9,4,2,8,4,1,0>>, -3>>, f |-> <<"ta", "ta", "pa", "pa">>],
    [c |-> <<1, <<9,5,4,0,0,9,1,9,1>>, -4>>, f |-> <<"ta", "ta", "ta", "pa", "pa">>],
    [c |-> <<0, <<1,9,3,0,9,0,9,7,8>>, -5>>, f |-> <<"ta", "ta", "ta", "ta", "pa", "pa">>],
    [c |-> <<1, <<3,0,8,8,0,6,3,6,5>>, -1>>, f |-> <<"va", "pa", "pa">>],
    [c |-> <<0, <<1,1,6,9,5,2,3,6,4>>, -2>>, f |-> <<"ta", "va", "pa", "pa">>],
    [c |-> <<0, <<4,9,5,2,7,1,9,0,3>>, -4>>, f |-> <<"ta", "ta", "va", "pa", "pa">>],
    [c |-> <<1, <<1,9,0,7,1,0,8,8,2>>, -5>>, f |-> <<"ta", "ta", "ta", "va", "pa", "pa">>],
    [c |-> <<0, <<2,1,0,7,8,7,7,5,6>>, -3>>, f |-> <<"va", "va", "pa", "pa">>],
    [c |-> <<1, <<6,9,8,4,4,5,7,3,8>>, -4>>, f |-> <<"ta", "va", "va", "pa", "pa">>],
    [c |-> <<0, <<2,3,0,1,0,9,0,7,3>>, -5>>, f |-> <<"ta", "ta", "va", "va", "pa", "pa">>],
    [c |-> <<0, <<4,1,7,8,5,6,5,9,0>>, -4>>, f |-> <<"va", "va", "va", "pa", "pa">>],
    [c |-> <<1, <<1,2,7,0,4,3,8,7,1>>, -5>>, f |-> <<"ta", "va", "va", "va", "pa", "pa">>],
    [c |-> <<1, <<3,0,4,6,2,0,4,7,2>>, -6>>, f |-> <<"va", "va", "va", "va", "pa", "pa">>],
    [c |-> <<0, <<5,1,4,5,0,7,4,2,4>>, -2>>, f |-> <<"d_tmrt", "pa", "pa">>],
    [c |-> <<1, <<4,3,2,5,1,0,9,9,7>>, -3>>, f |-> <<"ta", "d_tmrt", "pa", "pa">>],
    [c |-> <<0, <<8,9,9,2,8,1,1,5,6>>, -5>>, f |-> <<"ta", "ta", "d_tmrt", "pa", "pa">>],
    [c |-> <<1, <<7,1,4,6,6,3,9,4,3>>, -7>>, f |-> <<"ta", "ta", "ta", "d_tmrt", "pa", "pa">>],
    [c |-> <<1, <<2,6,6,0,1,6,3,0,5>>, -4>>, f |-> <<"va", "d_tmrt", "pa", "pa">>],
    [c |-> <<0, <<2,6,3,7,8,9,5,8,6>>, -4>>, f |-> <<"ta", "va", "d_tmrt", "pa", "pa">>],
    [c |-> <<1, <<7,0,1,1,9,9,0,0,3>>, -6>>, f |-> <<"ta", "ta", "va", "d_tmrt", "pa", "pa">>],
    [c |-> <<1, <<1,0,6,8,2,3,3,0,6>>, -4>>, f |-> <<"va", "va", "d_tmrt", "pa", "pa">>],
    [c |-> <<0, <<3,6,1,3,4,1,1,3,6>>, -6>>, f |-> <<"ta", "va", "va", "d_tmrt", "pa", "pa">>],
    [c |-> <<0, <<2,2,9,7,4,8,9,6,7>>, -7>>, f |-> <<"va", "va", "va", "d_tmrt", "pa", "pa">>],
    [c |-> <<0, <<3,0,4,7,8,8,8,9,3>>, -4>>, f |-> <<"d_tmrt", "d_tmrt", "pa", "pa">>],
    [c |-> <<1, <<6,4,2,0,7,0,8,3,6>>, -5>>, f |-> <<"ta", "d_tmrt", "d_tmrt", "pa", "pa">>],
    [c |-> <<0, <<1,1,6,2,5,7,9,7,1>>, -6>>, f |-> <<"ta", "ta", "d_tmrt", "d_tmrt", "pa", "pa">>],
    [c |-> <<0, <<7,6,8,0,2,3,3,8,4>>, -6>>, f |-> <<"va", "d_tmrt", "d_tmrt", "pa", "pa">>],
    [c |-> <<1, <<5,4,7,4,4,6,8,9,6>>, -7>>, f |-> <<"ta", "va", "d_tmrt", "d_tmrt", "pa", "pa">>],
    [c |-> <<1, <<3,5,9,9,3,7,9,1,0>>, -8>>, f |-> <<"va", "va", "d_tmrt", "d_tmrt", "pa", "pa">>],
    [c |-> <<1, <<4,3,6,4,9,7,7,2,5>>, -6>>, f |-> <<"d_tmrt", "d_tmrt", "d_tmrt", "pa", "pa">>],
    [c |-> <<0, <<1,6,8,7,3,7,9,6,9>>, -7>>, f |-> <<"ta", "d_tmrt", "d_tmrt", "d_tmrt", "pa", "pa">>],
    [c |-> <<0, <<2,6,7,4,8,9,2,7,1>>, -8>>, f |-> <<"va", "d_tmrt", "d_tmrt", "d_tmrt", "pa", "pa">>],
    [c |-> <<0, <<3,2,3,9,2,6,8,9,7>>, -9>>, f |-> <<"d_tmrt", "d_tmrt", "d_tmrt", "d_tmrt", "pa", "pa">>],
    [c |-> <<1, <<3,5,3,8,7,4,1,2,3>>, -2>>, f |-> <<"pa", "pa", "pa">>],
    [c |-> <<1, <<2,2,1,2,0,1,1,9,0>>, -1>>, f |-> <<"ta", "pa", "pa", "pa">>],
    [c |-> <<0, <<1,5,5,1,2,6,0,3,8>>, -2>>, f |-> <<"ta", "ta", "pa", "pa", "pa">>],
    [c |-> <<1, <<2,6,3,9,1,7,2,7,9>>, -4>>, f |-> <<"ta", "ta", "ta", "pa", "pa", "pa">>],
    [c |-> <<0, <<4,5,3,4,3,3,4,5,5>>, -2>>, f |-> <<"va", "pa", "pa", "pa">>],
    [c |-> <<1, <<4,3,2,9,4,3,8,6,2>>, -3>>, f |-> <<"ta", "va", "pa", "pa", "pa">>],
    [c |-> <<0, <<1,4,5,3,8,9,8,2,6>>, -4>>, f |-> <<"ta", "ta", "va", "pa", "pa", "pa">>],
    [c |-> <<0, <<2,1,7,5,0,8,6,1,0>>, -4>>, f |-> <<"va", "va", "pa", "pa", "pa">>],
    [c |-> <<1, <<6,6,6,7,2,4,7,0,2>>, -5>>, f |-> <<"ta", "va", "va", "pa", "pa", "pa">>],
    [c |-> <<0, <<3,3,3,2,1,7,1,4,0>>, -5>>, f |-> <<"va", "va", "va", "pa", "pa", "pa">>],
    [c |-> <<1, <<2,2,6,9,2,1,6,1,5>>, -3>>, f |-> <<"d_tmrt", "pa", "pa", "pa">>],
    [c |-> <<0, <<3,8,0,2,6,1,9,8,2>>, -4>>, f |-> <<"ta", "d_tmrt", "pa", "pa", "pa">>],
    [c |-> <<1, <<5,4,5,3,1,4,3,1,4>>, -9>>, f |-> <<"ta", "ta", "d_tmrt", "pa", "pa", "pa">>],
    [c |-> <<1, <<7,9,6,3,5,5,4,4,8>>, -4>>, f |-> <<"va", "d_tmrt", "pa", "pa", "pa">>],
    [c |-> <<0, <<2,5,3,4,5,8,0,3,4>>, -5>>, f |-> <<"ta", "va", "d_tmrt", "pa", "pa", "pa">>],
    [c |-> <<1, <<6,3,1,2,2,3,6,5,8>>, -6>>, f |-> <<"va", "va", "d_tmrt", "pa", "pa", "pa">>],
    [c |-> <<0, <<3,0,2,1,2,2,0,3,5>>, -4>>, f |-> <<"d_tmrt", "d_tmrt", "pa", "pa", "pa">>],
    [c |-> <<1, <<4,7,7,4,0,3,5,4,7>>, -6>>, f |-> <<"ta", "d_tmrt", "d_tmrt", "pa", "pa", "pa">>],
    [c |-> <<0, <<1,7,3,8,2,5,7,1,5>>, -6>>, f |-> <<"va", "d_tmrt", "d_tmrt", "pa", "pa", "pa">>],
    [c |-> <<1, <<4,0,9,0,8,7,8,9,8>>, -7>>, f |-> <<"d_tmrt", "d_tmrt", "d_tmrt", "pa", "pa", "pa">>],
    [c |-> <<0, <<6,1,4,1,5,5,3,4,5>>, -1>>, f |-> <<"pa", "pa", "pa", "pa">>],
    [c |-> <<1, <<6,1,6,7,5,5,9,3,1>>, -2>>, f |-> <<"ta", "pa", "pa", "pa", "pa">>],
    [c |-> <<0, <<1,3,3,3,7,4,8,4,6>>, -3>>, f |-> <<"ta", "ta", "pa", "pa", "pa", "pa">>],
    [c |-> <<0, <<3,5,5,3,7,5,3,8,7>>, -3>>, f |-> <<"va", "pa", "pa", "pa", "pa">>],
    [c |-> <<1, <<5,1,3,0,2,7,8,5,1>>, -4>>, f |-> <<"ta", "va", "pa", "pa", "pa", "pa">>],
    [c |-> <<0, <<1,0,2,4,4,9,7,5,7>>, -4>>, f |-> <<"va", "va", "pa", "pa", "pa", "pa">>],
    [c |-> <<1, <<1,4,8,5,2,6,4,2,1>>, -3>>, f |-> <<"d_tmrt", "pa", "pa", "pa", "pa">>],
    [c |-> <<1, <<4,1,1,4,6,9,1,8,3>>, -5>>, f |-> <<"ta", "d_tmrt", "pa", "pa", "pa", "pa">>],
    [c |-> <<1, <<6,8,0,4,3,4,4,1,5>>, -6>>, f |-> <<"va", "d_tmrt", "pa", "pa", "pa", "pa">>],
    [c |-> <<1, <<9,7,7,6,7,5,9,0,6>>, -6>>, f |-> <<"d_tmrt", "d_tmrt", "pa", "pa", "pa", "pa">>],
    [c |-> <<0, <<8,8,2,7,7,3,1,0,8>>, -2>>, f |-> <<"pa", "pa", "pa", "pa", "pa">>],
    [c |-> <<1, <<3,0,1,8,5,9,3,0,6>>, -3>>, f |-> <<"ta", "pa", "pa", "pa", "pa", "pa">>],
    [c |-> <<0, <<1,0,4,4,5,2,9,8,9>>, -3>>, f |-> <<"va", "pa", "pa", "pa", "pa", "pa">>],
    [c |-> <<0, <<2,4,7,0,9,0,5,3,9>>, -4>>, f |-> <<"d_tmrt", "pa", "pa", "pa", "pa", "pa">>],
    [c |-> <<0, <<1,4,8,3,4,8,0,6,5>>, -3>>, f |-> <<"pa", "pa", "pa", "pa", "pa", "pa">>]
>>

NTerms == Len(Terms)

\* the coefficients as Python reads the literals
TermCoefficient(term) == Sci(term.c[1], term.c[2], term.c[3])

Coefficients ==
    SubSeq([i \in 1..Len(Terms) |-> TermCoefficient(Terms[i])], 1, Len(Terms))

\* the literal 10.0 of pa = eh_pa / 10.0
Ten == Sci(0, <<1, 0>>, 1)

\* an exception raised instead of a value returned
Raise(exc) == [k |-> "raise", exc |-> exc]
Raised(x) == x.k = "raise"

\* acc * f[j] * ... * f[Len(f)], multiplied left to right
RECURSIVE Product(_, _, _, _)
Product(acc, f, j, val) ==
    IF Raised(acc) \/ j > Len(f) THEN acc
    ELSE Product(FMul(acc, val[f[j]]), f, j + 1, val)

\* a variant of Factors: a term of six factors loses its first
FactorsOfFive(i) ==
    IF Len(Terms[i].f) = 6 THEN Tail(Terms[i].f) ELSE Terms[i].f

\* the factors term i multiplies its coefficient by, in source order
Factors(i) == Terms[i].f

\* term i of the polynomial at the given values of the four variables
TermValue(i, val) == Product(Coefficients[i], Factors(i), 1, val)

\* ((acc + term lo) + term lo+1) + ... + term hi: the sum is taken left to
\* right as Python does; the range is halved only to keep the evaluation
\* shallow
RECURSIVE SumTerms(_, _, _, _)
RECURSIVE SumTermsUpper(_, _, _, _)
SumTermsUpper(left, lo, hi, val) ==
    IF Raised(left) THEN left ELSE SumTerms(left, lo, hi, val)

SumTerms(acc, lo, hi, val) ==
    IF lo > hi THEN acc
    ELSE IF lo = hi THEN FAdd(acc, TermValue(lo, val))
    ELSE SumTermsUpper(SumTerms(acc, lo, (lo + hi) \div 2, val),
                       (lo + hi) \div 2 + 1, hi, val)

\* a variant of utci_approx: the polynomial taken at eh_pa, not at eh_pa / 10.0
utci_approx_hPa(ta, eh_pa, tmrt, va) ==
    SumTerms(ta, 1, NTerms,
             [ta |-> ta, va |-> va, d_tmrt |-> FSub(tmrt, ta), pa |-> eh_pa])

\* a variant of utci_approx: a wind speed not strictly inside 0.5 .. 17 is
\* rejected
utci_approx_ranged(ta, eh_pa, tmrt, va) ==
    IF FLt(Sci(0, <<5>>, -1), va) /\ FLt(va, Sci(0, <<1, 7>>, 1))
    THEN SumTerms(ta, 1, NTerms,
                  [ta |-> ta, va |-> va, d_tmrt |-> FSub(tmrt, ta),
                   pa |-> FDiv(eh_pa, Ten)])
    ELSE Raise("ValueError")

\* a variant of utci_approx: an argument that is not finite is rejected
utci_approx_finite(ta, eh_pa, tmrt, va) ==
    IF ta.k = "fin" /\ eh_pa.k = "fin" /\ tmrt.k = "fin" /\ va.k = "fin"
    THEN SumTerms(ta, 1, NTerms,
                  [ta |-> ta, va |-> va, d_tmrt |-> FSub(tmrt, ta),
                   pa |-> FDiv(eh_pa, Ten)])
    ELSE Raise("ValueError")

utci_approx(ta, eh_pa, tmrt, va) ==
    LET d_tmrt == FSub(tmrt, ta)
        pa == FDiv(eh_pa, Ten)
        val == [ta |-> ta, va |-> va, d_tmrt |-> d_tmrt, pa |-> pa]
    IN  SumTerms(ta, 1, NTerms, val)

(***************************************************************************)
(* The C library's log, exp and pow, which numpy and Python call.  Their   *)
(* exact result is computed in fixed point with FracBits binary places     *)
(* (a magnitude is a natural number N standing for N / 2^FracBits) and     *)
(* rounded to a binary64.  A C library does not promise the nearest        *)
(* binary64, only one of the two neighbours of the exact result, so the    *)
(* rounding mode of these three functions is a parameter.                  *)
(***************************************************************************)
FracBits == 10 * 15

FxOne == BShl(BOne, FracBits)
FxMul(a, b) == BShr(BMul(a, b), FracBits)
FxDiv(a, b) == BDivMod(BShl(a, FracBits), b).q

\* the most terms a series is summed to
SeriesTerms == 2^6

\* z + z^3/3 + z^5/5 + ... for a magnitude z < 1/2.  A step adds one term
\* (power is z^n); a power with no bit left ends the sum.  The steps lo..hi are
\* taken in order; the range is halved only to keep the evaluation shallow
AtanhStep(st) ==
    IF st.power = <<>> THEN st
    ELSE [power |-> FxMul(st.power, st.z2), z2 |-> st.z2, n |-> st.n + 2,
          acc |-> BAdd(st.acc, BDivLimb(st.power, st.n).q)]

RECURSIVE AtanhSum(_, _, _)
AtanhSum(st, lo, hi) ==
    IF st.power = <<>> THEN st
    ELSE IF lo = hi THEN AtanhStep(st)
    ELSE AtanhSum(AtanhSum(st, lo, (lo + hi) \div 2), (lo + hi) \div 2 + 1, hi)

Atanh(z) ==
    AtanhSum([power |-> z, z2 |-> FxMul(z, z), n |-> 1, acc |-> <<>>],
             1, SeriesTerms).acc

\* ln 2 = 2 atanh(1/3)
Ln2 == BShl(Atanh(FxDiv(BOne, <<3>>)), 1)

\* the value of ln f, lnf with the sign of fneg, plus p ln 2, for pl = |p| ln 2
FxLnSum(fneg, lnf, p, pl) ==
    IF p = 0 THEN [s |-> IF fneg THEN 1 ELSE 0, n |-> lnf]
    ELSE IF (p < 0) = fneg THEN [s |-> IF fneg THEN 1 ELSE 0, n |-> BAdd(pl, lnf)]
    ELSE IF BCmp(pl, lnf) >= 0 THEN [s |-> IF p < 0 THEN 1 ELSE 0, n |-> BSub(pl, lnf)]
    ELSE [s |-> IF fneg THEN 1 ELSE 0, n |-> BSub(lnf, pl)]

\* |ln f| = 2 atanh(|f - 1| / (f + 1))
FxLnAtanh(f, fneg) ==
    BShl(Atanh(FxDiv(IF fneg THEN BSub(FxOne, f) ELSE BSub(f, FxOne),
                     BAdd(f, FxOne))), 1)

FxLnOf(f, fneg, p) ==
    FxLnSum(fneg, FxLnAtanh(f, fneg), p,
            BMul(BFromInt(IF p < 0 THEN 0 - p ELSE p), Ln2))

FxLnFraction(f, p) == FxLnOf(f, BCmp(f, FxOne) < 0, p)

\* m = f * 2^scale
FxLnScaled(m, scale, p) ==
    FxLnFraction(IF scale <= FracBits THEN BShl(m, FracBits - scale)
                 ELSE BShr(m, scale - FracBits), p)

\* big: the two top bits of m are set, f is taken in [3/4, 1)
FxLnTop(m, e, len, big) ==
    FxLnScaled(m, IF big THEN len ELSE len - 1,
               IF big THEN e + len ELSE e + len - 1)

FxLnBits(m, e, len) == FxLnTop(m, e, len, len >= 2 /\ BShr(m, len - 2) = <<3>>)

\* the natural logarithm of m * 2^e > 0 as [s, n]: (-1)^s * n / 2^FracBits.
\* m * 2^e = f * 2^p with 3/4 <= f < 3/2, and ln f = 2 atanh((f - 1)/(f + 1))
FxLn(m, e) == FxLnBits(m, e, BBitLen(m))

LogRound(mode, v) ==
    IF v.n = <<>> THEN Zero("float64", 0)
    ELSE RoundTo(mode, "float64", v.s, v.n, 0 - FracBits, TRUE)

\* C log(x), as numpy.log returns it (a numpy.float64; no exception: log(0)
\* is -inf and the log of a negative number is NaN, each with a warning)
Log(x, mode) ==
    IF x.k = "nan" THEN NaN("float64")
    ELSE IF x.m = <<>> /\ x.k = "fin" THEN Inf("float64", 1)
    ELSE IF x.s = 1 THEN NaN("float64")
    ELSE IF x.k = "inf" THEN Inf("float64", 0)
    ELSE LogRound(mode, FxLn(x.m, x.e))

\* 1 + r + r^2/2! + r^3/3! + ... for a magnitude r < 1.  A step adds one
\* term (term is r^n / n!); a term with no bit left ends the sum
ExpStep(st) ==
    IF st.term = <<>> THEN st
    ELSE [term |-> BDivLimb(FxMul(st.term, st.r), st.n + 1).q, r |-> st.r,
          n |-> st.n + 1, acc |-> BAdd(st.acc, st.term)]

RECURSIVE ExpSum(_, _, _)
ExpSum(st, lo, hi) ==
    IF st.term = <<>> THEN st
    ELSE IF lo = hi THEN ExpStep(st)
    ELSE ExpSum(ExpSum(st, lo, (lo + hi) \div 2), (lo + hi) \div 2 + 1, hi)

\* 2^kk * exp(r)
ExpScale(mode, kk, r) ==
    RoundTo(mode, "float64", 0,
            ExpSum([term |-> FxOne, r |-> r, n |-> 0, acc |-> <<>>],
                   1, SeriesTerms).acc,
            kk - FracBits, TRUE)

\* |y| = k ln 2 + d.r, which for a negative y is y = -(k + 1) ln 2 +
\* (ln 2 - d.r) unless d.r is zero
ExpSplit(y, mode, d, k, ln2) ==
    ExpScale(mode,
             IF y.s = 0 THEN k ELSE IF d.r = <<>> THEN 0 - k ELSE 0 - (k + 1),
             IF y.s = 0 \/ d.r = <<>> THEN d.r ELSE BSub(ln2, d.r))

ExpQuot(y, mode, d, ln2) ==
    ExpSplit(y, mode, d, IF d.q = <<>> THEN 0 ELSE d.q[1], ln2)

\* a is |y| in fixed point
ExpReduce(y, mode, a, ln2) == ExpQuot(y, mode, BDivMod(a, ln2), ln2)

\* C exp(y), as numpy.exp returns it: y = k ln 2 + r with 0 <= r < ln 2 and
\* exp(y) = 2^k exp(r)
Exp(y, mode) ==
    IF y.k = "nan" THEN NaN("float64")
    ELSE IF y.k = "inf" THEN (IF y.s = 0 THEN Inf("float64", 0) ELSE Zero("float64", 0))
    ELSE IF y.m = <<>> THEN Fin("float64", 0, BShl(BOne, Precision - 1), 1 - Precision)
    \* |y| >= 2^11: overflow to infinity or underflow to zero
    ELSE IF y.e + BBitLen(y.m) > 11
         THEN (IF y.s = 0 THEN Inf("float64", 0) ELSE Zero("float64", 0))
    ELSE ExpReduce(y, mode,
                   IF y.e + FracBits >= 0 THEN BShl(y.m, y.e + FracBits)
                   ELSE BShr(y.m, 0 - (y.e + FracBits)),
                   Ln2)

\* 1 / den from its quotient by 2^-k
PowQuotRound(x, mode, s, a, k, d) ==
    RoundTo(mode, x.t, s, d.q, 0 - k - x.e * a, d.r # <<>>)

PowQuot(x, mode, s, a, den, k) ==
    PowQuotRound(x, mode, s, a, k, BDivMod(BShl(BOne, k), den))

\* x^a or its reciprocal for den = x.m^a
PowRound(x, mode, s, a, pos, den) ==
    IF pos THEN RoundTo(mode, x.t, s, den, x.e * a, FALSE)
    ELSE PowQuot(x, mode, s, a, den, BBitLen(den) + 64)

\* the sign s of x^a
PowSigned(x, mode, s, a, pos) ==
    IF x.k = "nan" THEN NaN(x.t)
    ELSE IF x.k = "inf" THEN (IF pos THEN Inf(x.t, s) ELSE Zero(x.t, s))
    ELSE IF x.m = <<>> THEN (IF pos THEN Zero(x.t, s) ELSE Inf(x.t, s))
    ELSE PowRound(x, mode, s, a, pos, BPow(x.m, a))

PowAbs(x, mode, a, pos) ==
    PowSigned(x, mode, IF a % 2 = 1 THEN x.s ELSE 0, a, pos)

\* C pow(x, n) for an integer n
PowValue(x, n, mode) ==
    IF n = 0 THEN Fin(x.t, 0, BShl(BOne, Precision - 1), 1 - Precision)
    ELSE PowAbs(x, mode, IF n < 0 THEN 0 - n ELSE n, n > 0)

PowChecked(x, n, v) ==
    IF x.t = "float64" \/ n = 0 THEN v
    ELSE IF x.k = "fin" /\ x.m = <<>> /\ n < 0 THEN Raise("ZeroDivisionError")
    ELSE IF v.k = "inf" /\ x.k = "fin" THEN Raise("OverflowError")
    ELSE v

\* x ** n for an integer n, a Python float or a numpy.float64 x.  Python's
\* float.__pow__ raises ZeroDivisionError for 0.0 to a negative power and
\* OverflowError when C pow overflows; numpy.float64.__pow__ returns
\* infinity in both cases (with a warning)
Pow(x, n, mode) == PowChecked(x, n, PowValue(x, n, mode))

(***************************************************************************)
(* es (utci.py lines 13-50): Hardy's ITS-90 saturation vapour pressure.    *)
(***************************************************************************)
\* the array g of lines 29-38: numpy.float64 elements, indexed from 0
g ==
    0 :> AsNp(Sci(1, <<2,8,3,6,5,7,4,4>>, 3))
    @@ 1 :> AsNp(Sci(1, <<6,0,2,8,0,7,6,5,5,9>>, 3))
    @@ 2 :> AsNp(Sci(0, <<1,9,5,4,2,6,3,6,1,2>>, 1))
    @@ 3 :> AsNp(Sci(1, <<2,7,3,7,8,3,0,1,8,8>>, -2))
    @@ 4 :> AsNp(Sci(0, <<1,6,2,6,1,6,9,8>>, -5))
    @@ 5 :> AsNp(Sci(0, <<7,0,2,2,9,0,5,6>>, -10))
    @@ 6 :> AsNp(Sci(1, <<1,8,6,8,0,0,0,9>>, -13))
    @@ 7 :> AsNp(Sci(0, <<2,7,1,5,0,3,0,5>>, 0))

\* the literals 273.15 and 0.01
Kelvin == Sci(0, <<2,7,3,1,5>>, 2)
PaToHPa == Sci(0, <<1>>, -2)

\* a variant of EsLoop: the powers are tk^-1 .. tk^5
RECURSIVE EsLoopShifted(_, _, _, _)
EsLoopShifted(es_val, tk, i, mode) ==
    IF Raised(es_val) \/ i > 6 THEN es_val
    ELSE IF Raised(Pow(tk, i - 1, mode)) THEN Pow(tk, i - 1, mode)
    ELSE EsLoopShifted(FAdd(es_val, FMul(g[i], Pow(tk, i - 1, mode))),
                       tk, i + 1, mode)

\* the loop of lines 45-46 from index i on: es_val += g[i] * tk**(i - 2)
RECURSIVE EsLoop(_, _, _, _)
RECURSIVE EsLoopAdd(_, _, _, _, _)
EsLoopAdd(es_val, tk, i, mode, p) ==
    IF Raised(p) THEN p
    ELSE EsLoop(FAdd(es_val, FMul(g[i], p)), tk, i + 1, mode)

EsLoop(es_val, tk, i, mode) ==
    IF Raised(es_val) \/ i > 6 THEN es_val
    ELSE EsLoopAdd(es_val, tk, i, mode, Pow(tk, i - 2, mode))

\* a variant of EsReturn: the value is left in pascals
EsReturnPa(es_val, mode) ==
    IF Raised(es_val) THEN es_val ELSE Exp(es_val, mode)

\* lines 48-50: np.exp(es_val) * 0.01
EsReturn(es_val, mode) ==
    IF Raised(es_val) THEN es_val ELSE FMul(Exp(es_val, mode), PaToHPa)

\* lines 44-50: es_val = g[7] * np.log(tk), the loop and the return
EsOfKelvin(tk, mode) ==
    EsReturn(EsLoop(FMul(g[7], Log(tk, mode)), tk, 0, mode), mode)

\* a variant of es: ta is taken as kelvins
es_kelvin(ta, mode) == EsOfKelvin(ta, mode)

es(ta, mode) == EsOfKelvin(FAdd(ta, Kelvin), mode)

(***************************************************************************)
(* rh_to_vp (utci.py lines 53-64)                                          *)
(***************************************************************************)
Hundred == Sci(0, <<1, 0, 0>>, 2)

\* es_ta * rh / 100.0, or the exception es raised
RhToVpScale(es_ta, rh) ==
    IF Raised(es_ta) THEN es_ta ELSE FDiv(FMul(es_ta, rh), Hundred)

\* a variant of rh_to_vp: a humidity below 1 is taken as 1
rh_to_vp_floor(ta, rh, mode) ==
    RhToVpScale(es(ta, mode),
                IF FLt(rh, Sci(0, <<1>>, 0)) THEN Sci(0, <<1>>, 0) ELSE rh)

\* a variant of rh_to_vp: a humidity above 100 is taken as 100
rh_to_vp_cap(ta, rh, mode) ==
    RhToVpScale(es(ta, mode), IF FLt(Hundred, rh) THEN Hundred ELSE rh)

\* a variant of rh_to_vp: the humidity taken as a fraction, not as per cent
rh_to_vp_fraction(ta, rh, mode) ==
    IF Raised(es(ta, mode)) THEN es(ta, mode) ELSE FMul(es(ta, mode), rh)

rh_to_vp(ta, rh, mode) == RhToVpScale(es(ta, mode), rh)

(***************************************************************************)
(* Values the callers pass                                                 *)
(***************************************************************************)
\* the Python float of a whole number
FromInt(i) == Round("float", IF i < 0 THEN 1 ELSE 0,
                    BFromInt(IF i < 0 THEN 0 - i ELSE i), 0, FALSE)

\* the float i units in the last place above x (x finite and not zero, the
\* result in the binade of x)
StepUp(x, i) ==
    IF x.s = 0 THEN Round(x.t, 0, BAdd(x.m, BFromInt(i)), x.e, FALSE)
    ELSE Round(x.t, 1, BSub(x.m, BFromInt(i)), x.e, FALSE)

\* 5e-324, the smallest positive float
MinSubnormal == Fin("float", 0, BOne, EMin)

\* no value: a variable the scenario does not use or has not assigned yet
None == [k |-> "none"]

\* what the C library may do with the last bit of log, exp and pow
LibmModes == {"nearest", "floor", "ceil"}

(***************************************************************************)
(* The interpretation of example.py lines 33-53: an if/elif chain on utci  *)
(***************************************************************************)
\* a variant of Comfort: a value equal to a number of the chain falls in the
\* band below it
ComfortUpTo(utci) ==
    IF FLe(utci, FromInt(-40)) THEN "extreme cold stress"
    ELSE IF FLe(utci, FromInt(-27)) THEN "very strong cold stress"
    ELSE IF FLe(utci, FromInt(-13)) THEN "strong cold stress"
    ELSE IF FLe(utci, FromInt(0)) THEN "moderate cold stress"
    ELSE IF FLe(utci, FromInt(9)) THEN "slight cold stress"
    ELSE IF FLe(utci, FromInt(26)) THEN "no thermal stress"
    ELSE IF FLe(utci, FromInt(32)) THEN "moderate heat stress"
    ELSE IF FLe(utci, FromInt(38)) THEN "strong heat stress"
    ELSE IF FLe(utci, FromInt(46)) THEN "very strong heat stress"
    ELSE "extreme heat stress"

Comfort(utci) ==
    IF FLt(utci, FromInt(-40)) THEN "extreme cold stress"
    ELSE IF FLt(utci, FromInt(-27)) THEN "very strong cold stress"
    ELSE IF FLt(utci, FromInt(-13)) THEN "strong cold stress"
    ELSE IF FLt(utci, FromInt(0)) THEN "moderate cold stress"
    ELSE IF FLt(utci, FromInt(9)) THEN "slight cold stress"
    ELSE IF FLt(utci, FromInt(26)) THEN "no thermal stress"
    ELSE IF FLt(utci, FromInt(32)) THEN "moderate heat stress"
    ELSE IF FLt(utci, FromInt(38)) THEN "strong heat stress"
    ELSE IF FLt(utci, FromInt(46)) THEN "very strong heat stress"
    ELSE "extreme heat stress"

(***************************************************************************)
(* State: a caller of the package.  pc is the call the caller makes next;  *)
(* ta, rh, tmrt, va and vp are the arguments it passes (in main, its local *)
(* variables); es_ret and ret hold what es and rh_to_vp or utci_approx     *)
(* returned, or the exception they raised; prev is the caller's previous   *)
(* call of es; utci and comfort are main's other two local variables; step *)
(* is the place in a series of calls of es; libm is the rounding of the    *)
(* C library the process runs on; calls holds the calls in progress when   *)
(* several threads call the package at once.                               *)
(***************************************************************************)
VARIABLES libm, pc, step, ta, rh, tmrt, va, vp, es_ret, ret, prev, utci, comfort,
          calls

vars == <<libm, pc, step, ta, rh, tmrt, va, vp, es_ret, ret, prev, utci, comfort,
          calls>>

(***************************************************************************)
(* A series of calls of es                                                 *)
(***************************************************************************)
\* the whole-degree temperatures -50, -49, ... are TaSteps + 1 in number
TaSteps == 100

TaGrid == [i \in 1..(TaSteps + 1) |-> FromInt(i - 51)]

\* -273.15: absolute zero, where tk is 0.0; two temperatures around it; two
\* neighbouring floats just above -50 (10 and 11 units in the last place),
\* and 22.0 and the float after it; the whole degrees; two large values
EsInputs ==
    <<FNeg(Kelvin), FromInt(-300), FromInt(-273),
      StepUp(FromInt(-50), 10), StepUp(FromInt(-50), 11),
      FromInt(22), StepUp(FromInt(22), 1)>>
    \o TaGrid
    \o <<FromInt(1000), Sci(0, <<1>>, 80)>>

InitEs ==
    /\ libm \in LibmModes
    /\ pc = "es"
    /\ step = 1
    /\ ta = EsInputs[1]
    /\ rh = None /\ tmrt = None /\ va = None /\ vp = None
    /\ es_ret = None /\ ret = None /\ prev = None
    /\ utci = None /\ comfort = None /\ calls = None

\* the caller calls es(ta)
Es ==
    /\ pc = "es"
    /\ es_ret' = es(ta, libm)
    /\ pc' = "called"
    /\ UNCHANGED <<libm, step, ta, rh, tmrt, va, vp, ret, prev, utci, comfort, calls>>

\* the caller keeps the call it made and goes on to the next temperature
NextTa ==
    /\ pc = "called"
    /\ step >= 1 /\ step < Len(EsInputs)
    /\ prev' = [ta |-> ta, ret |-> es_ret]
    /\ step' = step + 1
    /\ ta' = EsInputs[step + 1]
    /\ pc' = "es"
    /\ UNCHANGED <<libm, rh, tmrt, va, vp, es_ret, ret, utci, comfort, calls>>

NextEs == Es \/ NextTa

SpecEs == InitEs /\ [][NextEs]_vars

(***************************************************************************)
(* A call of es(ta) and then of rh_to_vp(ta, rh), as the package's tests   *)
(* make them to compare the two                                            *)
(***************************************************************************)
VpTas ==
    {FromInt(-40), FromInt(-31), FromInt(-6), FromInt(20), FromInt(50),
     FromInt(-300), FNeg(Kelvin)}

RhInputs ==
    {FromInt(0), MinSubnormal, FromInt(1), FromInt(50), FromInt(99),
     FromInt(100), FromInt(150), FromInt(-10)}

InitVp ==
    /\ libm \in LibmModes
    /\ pc = "es"
    /\ step = 0
    /\ ta \in VpTas
    /\ rh = None /\ tmrt = None /\ va = None /\ vp = None
    /\ es_ret = None /\ ret = None /\ prev = None
    /\ utci = None /\ comfort = None /\ calls = None

\* the caller calls rh_to_vp(ta, rh)
RhToVp ==
    /\ pc = "called"
    /\ \E r \in RhInputs :
          /\ rh' = r
          /\ ret' = rh_to_vp(ta, r, libm)
    /\ pc' = "done"
    /\ UNCHANGED <<libm, step, ta, tmrt, va, vp, es_ret, prev, utci, comfort, calls>>

NextVp == Es \/ RhToVp

SpecVp == InitVp /\ [][NextVp]_vars

(***************************************************************************)
(* A call of utci_approx                                                   *)
(***************************************************************************)
\* the corners of the advisory ranges, as <<ta, eh_pa, tmrt, va>>
Corners ==
    {<<t, p, FAdd(t, d), v>> :
        t \in {FromInt(-50), FromInt(50)},
        p \in {FromInt(0), FromInt(50)},
        d \in {FromInt(-30), FromInt(70)},
        v \in {Sci(0, <<5>>, -1), FromInt(17)}}

\* values outside the advisory ranges, and values that are not finite
Extremes ==
    {FromInt(20), Sci(0, <<1>>, 60), NaN("float"), Inf("float", 0)}
    \X {FromInt(10), FromInt(-3), NaN("float")}
    \X {FromInt(25), Inf("float", 1)}
    \X {FromInt(40), NaN("float")}

UtciCalls == Corners \cup Extremes

\* utci_approx calls nothing of the C library
InitUtci ==
    /\ libm = "nearest"
    /\ pc = "utci_approx"
    /\ step = 0
    /\ \E c \in UtciCalls :
          ta = c[1] /\ vp = c[2] /\ tmrt = c[3] /\ va = c[4]
    /\ rh = None /\ es_ret = None /\ ret = None /\ prev = None
    /\ utci = None /\ comfort = None /\ calls = None

\* the caller calls utci_approx(ta, vp, tmrt, va)
UtciApprox ==
    /\ pc = "utci_approx"
    /\ ret' = utci_approx(ta, vp, tmrt, va)
    /\ pc' = "done"
    /\ UNCHANGED <<libm, step, ta, rh, tmrt, va, vp, es_ret, prev, utci, comfort, calls>>

NextUtci == UtciApprox

SpecUtci == InitUtci /\ [][NextUtci]_vars

(***************************************************************************)
(* main of example.py (lines 9-55), and its interpretation (lines 33-53)   *)
(* of a range of values of utci                                            *)
(***************************************************************************)
\* the float below a finite x that is not zero
Below(x) == FNeg(StepUp(FNeg(x), 1))

\* the half degrees -UtciSteps/2 .. UtciSteps/2
UtciSteps == 100

\* the numbers utci is compared with, lines 34-50
Cuts == <<-40, -27, -13, 0, 9, 26, 32, 38, 46>>

\* the strings assigned to comfort, lines 35-53
Bands ==
    <<"extreme cold stress", "very strong cold stress", "strong cold stress",
      "moderate cold stress", "slight cold stress", "no thermal stress",
      "moderate heat stress", "strong heat stress", "very strong heat stress",
      "extreme heat stress">>

\* the half degrees, the float below each number of the chain, the two
\* zeros and the float below them, the infinities and NaN
UtciValues ==
    {FDiv(FromInt(i), FromInt(2)) : i \in (0 - UtciSteps)..UtciSteps}
    \cup {Below(FromInt(Cuts[i])) : i \in {j \in 1..Len(Cuts) : Cuts[j] # 0}}
    \cup {Zero("float", 1), FNeg(MinSubnormal), Inf("float", 0),
          Inf("float", 1), NaN("float")}

\* main after lines 13-16
InitMain ==
    /\ libm \in LibmModes
    /\ pc = "convert"
    /\ step = 0
    /\ ta = Sci(0, <<2, 5, 0>>, 1)
    /\ rh = Sci(0, <<6, 0, 0>>, 1)
    /\ tmrt = Sci(0, <<3, 0, 0>>, 1)
    /\ va = Sci(0, <<2, 0>>, 0)
    /\ vp = None /\ es_ret = None /\ ret = None /\ prev = None
    /\ utci = None /\ comfort = None /\ calls = None

\* line 33 reached with some value of utci
InitInterpret ==
    /\ libm = "nearest"
    /\ pc = "interpret"
    /\ step = 0
    /\ utci \in UtciValues
    /\ ta = None /\ rh = None /\ tmrt = None /\ va = None
    /\ vp = None /\ es_ret = None /\ ret = None /\ prev = None
    /\ comfort = None /\ calls = None

InitExample == InitMain \/ InitInterpret

\* line 19.  An exception ends main
ConvertRh ==
    /\ pc = "convert"
    /\ vp' = rh_to_vp(ta, rh, libm)
    /\ pc' = IF Raised(rh_to_vp(ta, rh, libm)) THEN "raised" ELSE "calculate"
    /\ UNCHANGED <<libm, step, ta, rh, tmrt, va, es_ret, ret, prev, utci, comfort, calls>>

\* line 22
Calculate ==
    /\ pc = "calculate"
    /\ utci' = utci_approx(ta, vp, tmrt, va)
    /\ pc' = "interpret"
    /\ UNCHANGED <<libm, step, ta, rh, tmrt, va, vp, es_ret, ret, prev, comfort, calls>>

\* lines 34-53
Interpret ==
    /\ pc = "interpret"
    /\ comfort' = Comfort(utci)
    /\ pc' = "done"
    /\ UNCHANGED <<libm, step, ta, rh, tmrt, va, vp, es_ret, ret, prev, utci, calls>>

NextExample == ConvertRh \/ Calculate \/ Interpret

SpecExample == InitExample /\ [][NextExample]_vars

(***************************************************************************)
(* Threads calling the package at once.  Each call runs in a frame of its  *)
(* own, which holds its arguments and its local variables; the package has *)
(* no variable outside the frames (g is built in the frame of es, line 30, *)
(* and the coefficients of the polynomial are literals).  A step of a      *)
(* thread is one statement of its call, or one turn of the loop of es.     *)
(* calls[th] is the frame of thread th: call holds the function called and *)
(* its arguments, at the line it is at, ret what it returned or raised.    *)
(* rh_to_vp's call of es runs in the same record (es_ta is the value es    *)
(* returned to it).                                                        *)
(***************************************************************************)
Threads == {1, 2}

\* the calls a thread may make, numbered: es(-273.15), which raises,
\* rh_to_vp(25.0, 60.0), which calls es, and utci_approx(25.0, 19.0, 30.0, 2.0)
ConcurrentCalls ==
    <<[op |-> "es", ta |-> FNeg(Kelvin), rh |-> None, eh_pa |-> None,
       tmrt |-> None, va |-> None],
      [op |-> "rh_to_vp", ta |-> FromInt(25), rh |-> FromInt(60),
       eh_pa |-> None, tmrt |-> None, va |-> None],
      [op |-> "utci_approx", ta |-> FromInt(25), rh |-> None,
       eh_pa |-> FromInt(19), tmrt |-> FromInt(30), va |-> FromInt(2)]>>

\* a thread that is in no call
Idle ==
    [c |-> 0, call |-> None, at |-> "idle", g |-> None, tk |-> None,
     es_val |-> None, i |-> 0, es_ta |-> None, d_tmrt |-> None, pa |-> None,
     utci |-> None, ret |-> None]

\* the frame at the first statement of call c
StartFrame(c) ==
    [Idle EXCEPT !.c = c, !.call = ConcurrentCalls[c],
                 !.at = IF ConcurrentCalls[c].op = "utci_approx"
                        THEN "utci_84" ELSE "es_30"]

\* a variant of EsVal: es_val is a variable of the module, which the call
\* of thread 1 writes too
EsValOfModule(frames, th) ==
    IF frames[1].es_val = None THEN frames[th].es_val ELSE frames[1].es_val

\* the es_val a statement of thread th reads: the local variable of its frame
EsVal(frames, th) == frames[th].es_val

\* the variables of a single caller, which the threads leave alone
CallerVars ==
    <<libm, pc, step, ta, rh, tmrt, va, vp, es_ret, ret, prev, utci, comfort>>

InitThreads ==
    /\ libm = "nearest"
    /\ pc = "threads"
    /\ step = 0
    /\ ta = None /\ rh = None /\ tmrt = None /\ va = None /\ vp = None
    /\ es_ret = None /\ ret = None /\ prev = None
    /\ utci = None /\ comfort = None
    /\ calls = [th \in Threads |-> Idle]

\* a thread that is in no call, or whose call has ended, makes a call
ThreadCall(th) ==
    /\ calls[th].at \in {"idle", "done"}
    /\ \E c \in 1..Len(ConcurrentCalls) :
          calls' = [calls EXCEPT ![th] = StartFrame(c)]
    /\ UNCHANGED CallerVars

\* es lines 30-39: g = np.array([...])
ThreadEsArray(th) ==
    /\ calls[th].at = "es_30"
    /\ calls' = [calls EXCEPT ![th].g = g, ![th].at = "es_41"]
    /\ UNCHANGED CallerVars

\* es line 41: tk = ta + 273.15
ThreadEsKelvin(th) ==
    /\ calls[th].at = "es_41"
    /\ calls' = [calls EXCEPT ![th].tk = FAdd(calls[th].call.ta, Kelvin),
                              ![th].at = "es_44"]
    /\ UNCHANGED CallerVars

\* es line 44: es_val = g[7] * np.log(tk), and the loop begins
ThreadEsLog(th) ==
    /\ calls[th].at = "es_44"
    /\ calls' = [calls EXCEPT
                    ![th].es_val = FMul(calls[th].g[7], Log(calls[th].tk, libm)),
                    ![th].i = 0,
                    ![th].at = "es_45"]
    /\ UNCHANGED CallerVars

\* es lines 45-46, one turn of the loop: es_val += g[i] * tk**(i - 2).  An
\* exception raised by ** ends the call (and rh_to_vp's, which does not
\* catch it)
ThreadEsFor(th) ==
    /\ calls[th].at = "es_45"
    /\ calls' =
          IF Raised(Pow(calls[th].tk, calls[th].i - 2, libm))
          THEN [calls EXCEPT ![th].ret = Pow(calls[th].tk, calls[th].i - 2, libm),
                             ![th].at = "done"]
          ELSE [calls EXCEPT
                   ![th].es_val =
                       FAdd(EsVal(calls, th),
                            FMul(calls[th].g[calls[th].i],
                                 Pow(calls[th].tk, calls[th].i - 2, libm))),
                   ![th].i = calls[th].i + 1,
                   ![th].at = IF calls[th].i + 1 > 6 THEN "es_48" ELSE "es_45"]
    /\ UNCHANGED CallerVars

\* es line 48: es_val = np.exp(es_val) * 0.01
ThreadEsExp(th) ==
    /\ calls[th].at = "es_48"
    /\ calls' = [calls EXCEPT
                    ![th].es_val = FMul(Exp(EsVal(calls, th), libm), PaToHPa),
                    ![th].at = "es_50"]
    /\ UNCHANGED CallerVars

\* es line 50: return es_val, to the thread or to rh_to_vp
ThreadEsReturn(th) ==
    /\ calls[th].at = "es_50"
    /\ calls' =
          IF calls[th].call.op = "es"
          THEN [calls EXCEPT ![th].ret = EsVal(calls, th), ![th].at = "done"]
          ELSE [calls EXCEPT ![th].es_ta = EsVal(calls, th), ![th].at = "vp_64"]
    /\ UNCHANGED CallerVars

\* rh_to_vp line 64, after es(ta) has returned: return es(ta) * rh / 100.0
ThreadRhToVp(th) ==
    /\ calls[th].at = "vp_64"
    /\ calls' = [calls EXCEPT
                    ![th].ret = FDiv(FMul(calls[th].es_ta, calls[th].call.rh),
                                     Hundred),
                    ![th].at = "done"]
    /\ UNCHANGED CallerVars

\* utci_approx line 84: d_tmrt = tmrt - ta
ThreadDTmrt(th) ==
    /\ calls[th].at = "utci_84"
    /\ calls' = [calls EXCEPT
                    ![th].d_tmrt = FSub(calls[th].call.tmrt, calls[th].call.ta),
                    ![th].at = "utci_85"]
    /\ UNCHANGED CallerVars

\* utci_approx line 85: pa = eh_pa / 10.0
ThreadPa(th) ==
    /\ calls[th].at = "utci_85"
    /\ calls' = [calls EXCEPT ![th].pa = FDiv(calls[th].call.eh_pa, Ten),
                              ![th].at = "utci_89"]
    /\ UNCHANGED CallerVars

\* utci_approx lines 89-299: utci = ta + ...
ThreadPolynomial(th) ==
    /\ calls[th].at = "utci_89"
    /\ calls' = [calls EXCEPT
                    ![th].utci =
                        SumTerms(calls[th].call.ta, 1, NTerms,
                                 [ta |-> calls[th].call.ta,
                                  va |-> calls[th].call.va,
                                  d_tmrt |-> calls[th].d_tmrt,
                                  pa |-> calls[th].pa]),
                    ![th].at = "utci_301"]
    /\ UNCHANGED CallerVars

\* utci_approx line 301: return utci
ThreadUtciReturn(th) ==
    /\ calls[th].at = "utci_301"
    /\ calls' = [calls EXCEPT ![th].ret = calls[th].utci, ![th].at = "done"]
    /\ UNCHANGED CallerVars

NextThreads ==
    \E th \in Threads :
        \/ ThreadCall(th)
        \/ ThreadEsArray(th)
        \/ ThreadEsKelvin(th)
        \/ ThreadEsLog(th)
        \/ ThreadEsFor(th)
        \/ ThreadEsExp(th)
        \/ ThreadEsReturn(th)
        \/ ThreadRhToVp(th)
        \/ ThreadDTmrt(th)
        \/ ThreadPa(th)
        \/ ThreadPolynomial(th)
        \/ ThreadUtciReturn(th)

SpecThreads == InitThreads /\ [][NextThreads]_vars

(***************************************************************************)
(* The properties checked                                                  *)
(***************************************************************************)
\* the four variables of the polynomial
PolyVars == <<"ta", "va", "d_tmrt", "pa">>

\* how many times variable v is a factor of term i
Exponent(i, v) == Cardinality({j \in 1..Len(Factors(i)) : Factors(i)[j] = v})

\* the exponents of ta, va, d_tmrt and pa in term i
Exponents(i) == [k \in 1..4 |-> Exponent(i, PolyVars[k])]

\* C1: utci_approx returns ta + P(ta, va, d_tmrt, pa) with d_tmrt = tmrt - ta
\* and pa = vp / 10.0, where P is the sum, taken in source order, of exactly
\* 210 terms, each a literal coefficient times at most six factors, every
\* factor one of ta, va, d_tmrt and pa.
C1_Polynomial ==
    /\ Len(Terms) = 210
    /\ \A i \in 1..Len(Terms) :
          /\ Len(Factors(i)) <= 6
          /\ \A j \in 1..Len(Factors(i)) :
                Factors(i)[j] \in {"ta", "va", "d_tmrt", "pa"}
          /\ Coefficients[i].k = "fin"
    /\ pc = "done" =>
          ret = SumTerms(ta, 1, 210,
                         [ta |-> ta, va |-> va, d_tmrt |-> FSub(tmrt, ta),
                          pa |-> FDiv(vp, Ten)])

\* a call with a vapour pressure that is not zero has returned a finite value
C1_Witness ==
    /\ pc = "done"
    /\ ret.k = "fin"
    /\ ta = FromInt(50) /\ vp = FromInt(50) /\ va = FromInt(17)

\* C2 as the specification states it: es returns a number for every finite
\* ta, at or below -273.15 and arbitrarily large included, and never raises.
C2_NeverRaises == pc = "called" => ~Raised(es_ret)

\* ta is within [lo, hi], whole numbers
InRange(x, lo, hi) == x.k = "fin" /\ FLe(FromInt(lo), x) /\ FLe(x, FromInt(hi))

C4_Bounds ==
    (pc = "done" /\ InRange(ta, -40, 50) /\ InRange(rh, 0, 100)) =>
        /\ ret.k = "fin" /\ es_ret.k = "fin"
        /\ FLe(FromInt(0), ret)
        /\ FLe(ret, StepUp(es_ret, 1))
        /\ InRange(rh, 1, 99) => (FLt(FromInt(0), ret) /\ FLt(ret, es_ret))

\* C4 as the specification states it: for ta in [-40, 50] and rh in [0, 100]
\* the result is between 0 and es(ta) inclusive, and strictly between them
\* for rh strictly between 0 and 100.
C4_Inclusive ==
    (pc = "done" /\ InRange(ta, -40, 50) /\ InRange(rh, 0, 100)) =>
        /\ ret.k = "fin" /\ es_ret.k = "fin"
        /\ FLe(FromInt(0), ret)
        /\ FLe(ret, es_ret)
        /\ (FLt(FromInt(0), rh) /\ FLt(rh, FromInt(100))) =>
              (FLt(FromInt(0), ret) /\ FLt(ret, es_ret))

\* rh_to_vp(-40.0, 50.0) has returned a value strictly between 0 and es(-40.0)
C4_Witness ==
    /\ pc = "done" /\ ta = FromInt(-40) /\ rh = FromInt(50)
    /\ FLt(FromInt(0), ret) /\ FLt(ret, es_ret)

\* C5: rh_to_vp(ta, rh) is es(ta) * rh / 100.0 for every ta and rh, rh outside
\* [0, 100] included, and raises what es(ta) raises; for ta in [-50, 50],
\* rh_to_vp(ta, 100.0) is within 0.001 of es(ta).
C5_Formula ==
    pc = "done" =>
        /\ Raised(es_ret) => ret = es_ret
        /\ ~Raised(es_ret) => ret = FDiv(FMul(es_ret, rh), Sci(0, <<1, 0, 0>>, 2))
        /\ (rh = FromInt(100) /\ InRange(ta, -50, 50)) =>
              /\ ret.k = "fin" /\ es_ret.k = "fin"
              /\ FLt(FAbs(FSub(ret, es_ret)), Sci(0, <<1>>, -3))

\* C5 as the specification states it: rh_to_vp(ta, 100.0) is within 0.001 of
\* es(ta) for every ta.
C5_EveryTa ==
    (pc = "done" /\ rh = FromInt(100)) =>
        /\ ret.k = "fin" /\ es_ret.k = "fin"
        /\ FLt(FAbs(FSub(ret, es_ret)), Sci(0, <<1>>, -3))

\* rh_to_vp(20.0, 150.0) has returned more than es(20.0)
C5_Witness ==
    /\ pc = "done" /\ ta = FromInt(20) /\ rh = FromInt(150)
    /\ ret.k = "fin" /\ FLt(es_ret, ret)

\* x is within tol of y
Within(x, y, tol) == x.k = "fin" /\ FLe(FAbs(FSub(x, y)), tol)

BandIndex(b) == CHOOSE i \in 1..Len(Bands) : Bands[i] = b

\* C7: every value of utci gets one of the ten bands; a number gets band
\* 1 + the count of cut points -40, -27, -13, 0, 9, 26, 32, 38, 46 that are
\* at most the value (below -40: the first band, 46 or above: the last, a
\* cut point: the band above it), and a greater number never a lower band.
C7_Bands ==
    pc = "done" =>
        /\ \E i \in 1..10 : comfort = Bands[i]
        /\ Len(Cuts) = 9 /\ Len(Bands) = 10
        /\ utci.k # "nan" =>
              /\ comfort = Bands[1 + Cardinality({i \in 1..9 :
                                                   FLe(FromInt(Cuts[i]), utci)})]
              /\ \A v \in UtciValues :
                    (v.k # "nan" /\ FLe(utci, v)) =>
                        BandIndex(comfort) <= BandIndex(Comfort(v))

\* 26.0 has been interpreted, and so has the float below it
C7_Witness ==
    /\ pc = "done"
    /\ \/ utci = FromInt(26) /\ comfort = "moderate heat stress"
       \/ utci = Below(FromInt(26)) /\ comfort = "no thermal stress"

\* C8: at each of the 16 combinations of ta in {-50, 50}, vp in {0, 50},
\* d_tmrt in {-30, 70} and va in {0.5, 17}, utci_approx(ta, vp, ta + d_tmrt,
\* va) returns a finite float and raises nothing.
C8_Corners ==
    (pc = "done" /\ <<ta, vp, tmrt, va>> \in Corners) =>
        (~Raised(ret) /\ ret.k = "fin" /\ ret.t = "float")

\* the call at ta = -50, vp = 0, d_tmrt = 70, va = 17 has returned
C8_Witness ==
    /\ pc = "done" /\ ret.k = "fin"
    /\ ta = FromInt(-50) /\ vp = FromInt(0) /\ tmrt = FromInt(20)
    /\ va = FromInt(17)

\* C9: utci_approx rejects no argument: every call returns a float, never an
\* exception; an argument that is NaN gives NaN, an argument that is not
\* finite gives a result that is not finite, the overflow at ta = 1e60 gives
\* an infinity or NaN, and finite arguments outside the advisory ranges
\* (va = 40, vp = -3) give the finite value of the polynomial.
C9_NoValidation ==
    pc = "done" =>
        /\ ~Raised(ret)
        /\ ret.k \in {"fin", "inf", "nan"}
        /\ "nan" \in {ta.k, vp.k, tmrt.k, va.k} => ret.k = "nan"
        /\ {ta.k, vp.k, tmrt.k, va.k} # {"fin"} => ret.k # "fin"
        /\ ta = Sci(0, <<1>>, 60) => ret.k # "fin"
        /\ (ta = FromInt(20) /\ tmrt = FromInt(25) /\ vp.k = "fin"
            /\ va.k = "fin") => ret.k = "fin"

\* a call with va = 40 and vp = -3 has returned a number, and so has a call
\* with ta = NaN
C9_Witness ==
    /\ pc = "done"
    /\ \/ /\ ta = FromInt(20) /\ vp = FromInt(-3) /\ va = FromInt(40)
          /\ ret.k = "fin"
       \/ ta.k = "nan" /\ ret.k = "nan"

\* both temperatures are in [-50, 50] and the second is at least one degree
\* above the first
DegreeApart(t1, t2) ==
    /\ InRange(t1, -50, 50) /\ InRange(t2, -50, 50)
    /\ FLe(FAdd(t1, FromInt(1)), t2)

\* C10: es is strictly increasing over the whole degrees of [-50, 50]: a call
\* at a temperature at least one degree above that of the call before it
\* returns a strictly greater value.
C10_Degrees ==
    (pc = "called" /\ prev # None /\ DegreeApart(prev.ta, ta)) =>
        /\ prev.ret.k = "fin" /\ es_ret.k = "fin"
        /\ FLt(prev.ret, es_ret)

\* C10 as the specification states it: for all ta1 < ta2 in [-50, 50],
\* es(ta1) < es(ta2).
C10_Strict ==
    (/\ pc = "called" /\ prev # None
     /\ InRange(prev.ta, -50, 50) /\ InRange(ta, -50, 50)
     /\ FLt(prev.ta, ta)) =>
        /\ prev.ret.k = "fin" /\ es_ret.k = "fin"
        /\ FLt(prev.ret, es_ret)

\* es(21.0) has returned more than es(20.0) did
C10_Witness ==
    /\ pc = "called" /\ prev # None
    /\ prev.ta = FromInt(20) /\ ta = FromInt(21)
    /\ FLt(prev.ret, es_ret)

\* g[i] * tk^(i - 2)
HardyTerm(tk, i, mode) == FMul(g[i], Pow(tk, i - 2, mode))

\* g[7] * ln(tk) + g[0] * tk^-2 + g[1] * tk^-1 + ... + g[6] * tk^4, added in
\* that order
HardyLn(tk, mode) ==
    FAdd(FAdd(FAdd(FAdd(FAdd(FAdd(FAdd(FMul(g[7], Log(tk, mode)),
        HardyTerm(tk, 0, mode)), HardyTerm(tk, 1, mode)),
        HardyTerm(tk, 2, mode)), HardyTerm(tk, 3, mode)),
        HardyTerm(tk, 4, mode)), HardyTerm(tk, 5, mode)),
        HardyTerm(tk, 6, mode))

\* a power tk^-2 .. tk^4 raises
HardyRaises(tk, mode) == \E i \in 0..6 : Raised(Pow(tk, i - 2, mode))

\* C11: es(ta) takes tk = ta + 273.15 and returns exp(g[7] * ln(tk) + the sum
\* over i = 0..6 of g[i] * tk^(i - 2)) * 0.01, with the eight coefficients of
\* lines 30-38; a call returns nothing only where one of the powers raises.
C11_Hardy ==
    /\ DOMAIN g = 0..7
    /\ g[0] = AsNp(FNeg(Sci(0, <<2, 8, 3, 6, 5, 7, 4, 4>>, 3)))
    /\ g[7] = AsNp(Sci(0, <<2, 7, 1, 5, 0, 3, 0, 5>>, 0))
    /\ pc = "called" =>
          /\ Raised(es_ret) <=> HardyRaises(FAdd(ta, Sci(0, <<2, 7, 3, 1, 5>>, 2)), libm)
          /\ ~Raised(es_ret) =>
                es_ret = FMul(Exp(HardyLn(FAdd(ta, Sci(0, <<2, 7, 3, 1, 5>>, 2)),
                                          libm), libm),
                              Sci(0, <<1>>, -2))

\* es(20.0) has returned about 23.39 (hectopascals)
C11_Witness ==
    /\ pc = "called" /\ ta = FromInt(20)
    /\ Within(es_ret, Sci(0, <<2, 3, 3, 9>>, 1), Sci(0, <<1>>, -2))

\* the exponent tuples of the terms, in source order
TermExponents ==
    SubSeq([i \in 1..Len(Terms) |-> Exponents(i)], 1, Len(Terms))

\* the exponent tuples <<a, b, c, e>> with a + b + c + e <= 6
UpToDegreeSix ==
    {x \in [1..4 -> 0..6] : x[1] + x[2] + x[3] + x[4] <= 6}

\* C13: the 210 terms are pairwise distinct monomials, every exponent tuple
\* of ta, va, d_tmrt, pa with sum at most 6 (all zeros included) is the tuple
\* of exactly one term, and no term has degree above 6.
C13_Monomials ==
    /\ Len(Terms) = 210
    /\ Cardinality(UpToDegreeSix) = 210
    /\ \A i \in 1..Len(Terms) :
          /\ \A j \in 1..Len(Factors(i)) :
                \E k \in 1..4 : Factors(i)[j] = PolyVars[k]
          /\ TermExponents[i] \in UpToDegreeSix
    /\ \A i, j \in 1..Len(Terms) :
          i # j => TermExponents[i] # TermExponents[j]
    /\ \A x \in UpToDegreeSix :
          Cardinality({i \in 1..Len(Terms) : TermExponents[i] = x}) = 1
    /\ pc = "done" => ~Raised(ret)

\* a call in which no variable is zero, so that every term counts, has returned
C13_Witness ==
    /\ pc = "done" /\ ret.k = "fin"
    /\ ta = FromInt(50) /\ vp = FromInt(50) /\ tmrt = FromInt(120)
    /\ va = Sci(0, <<5>>, -1)

\* what call c returns, or raises, when it is made alone
CallAlone(c) ==
    IF ConcurrentCalls[c].op = "es" THEN es(ConcurrentCalls[c].ta, "nearest")
    ELSE IF ConcurrentCalls[c].op = "rh_to_vp"
         THEN rh_to_vp(ConcurrentCalls[c].ta, ConcurrentCalls[c].rh, "nearest")
    ELSE utci_approx(ConcurrentCalls[c].ta, ConcurrentCalls[c].eh_pa,
                     ConcurrentCalls[c].tmrt, ConcurrentCalls[c].va)

\* the frame is past line 30 of es
HasArray(fr) ==
    \/ fr.at \in {"es_41", "es_44", "es_45", "es_48", "es_50", "vp_64"}
    \/ fr.at = "done" /\ fr.call.op # "utci_approx"

\* C12: however the statements of the threads' calls of es, rh_to_vp and
\* utci_approx interleave, and whatever calls came before, a call that has
\* ended returned (or raised) what the same call returns when made alone;
\* the arguments of a call in progress are those it was made with, and the
\* array g of a call of es is the array of lines 30-38 from the statement
\* that builds it to the end of the call.
C12_Isolated ==
    \A th \in Threads :
        /\ calls[th].at = "done" => calls[th].ret = CallAlone(calls[th].c)
        /\ calls[th].at # "idle" => calls[th].call = ConcurrentCalls[calls[th].c]
        /\ IF HasArray(calls[th]) THEN calls[th].g = g ELSE calls[th].g = None

\* a call of one thread has returned a number while a different call of the
\* other thread is in the middle of the loop of es
C12_Witness ==
    \E th, other \in Threads :
        /\ th # other
        /\ calls[th].at = "done" /\ calls[th].ret.k = "fin"
        /\ calls[other].at = "es_45" /\ calls[other].i = 3
        /\ calls[other].c # calls[th].c

====
